---- MODULE Spec2Model ----
(***************************************************************************)
(* Model of the batch orchestration state machine of the question          *)
(* generator: MainExecutionFlow (core/main_execution_flow.py), the retry   *)
(* decorator that wraps process_batch_with_workflow                        *)
(* (core/error_handling.py) and the runner commands of main.py.            *)
(*                                                                         *)
(* One operating-system process at a time runs the orchestrator.  The      *)
(* process memory is `progress` (self.progress, a FlowProgress), the       *)
(* durable state is `state_file`.  A process can be killed at any step;    *)
(* a later process starts from a fresh FlowProgress and the file.          *)
(***************************************************************************)
EXTENDS Integers, Sequences, FiniteSets, TLC

\* ------------------------------------------------------------------ bounds
\* Number of batches of the loop `for batch_number in range(1, 20)`.
NumBatches == 4
\* Number of operating-system processes (runs) started one after another.
MaxRuns == 2
\* Number of events of the environment over the whole behaviour: exceptions
\* raised by suppliers, pause_flow calls (signals) and kills of the process.
MaxEvents == 1

\* ------------------------------------------------------- program constants
\* BatchProgress.max_retries
max_retries == 3
\* retry_with_backoff(max_retries=3, ...) on process_batch_with_workflow
wrapper_max_retries == 3
\* BatchProgress.total_steps
total_steps == 7
\* Optional[int] = None, written 0 (batch numbers start at 1)
None == 0

Batches == 1..NumBatches

\* FlowStatus and BatchStatus values (the enums' .value strings)
FlowStatus == {"not_started", "initializing", "running", "paused",
               "completed", "failed", "recovering"}
BatchStatus == {"pending", "analyzing", "planning", "researching",
                "generating", "validating", "optimizing", "integrating",
                "completed", "failed", "retrying"}

\* ------------------------------------------------------------- exceptions
\* An exception is a record of its class and its message; a message is a
\* sequence of text fragments, so that wrapping (an f-string that embeds
\* str(e)) is concatenation and `pattern in message` is membership.
NoMessage == << >>

TimeoutError == [cls |-> "Exception", msg |-> <<"timeout">>]
ExamGuideMissing == [cls |-> "QuestionGenerationError", msg |-> <<"Exam guide not found">>]

\* The failures a supplier call can raise.
SupplierErrors == {TimeoutError}

\* raise QuestionGenerationError(f"{prefix}: {str(e)}") from e
WrapError(prefix, e) ==
    [cls |-> "QuestionGenerationError", msg |-> <<prefix>> \o e.msg]

retryable_patterns ==
    {"timeout", "connection", "network", "throttling", "rate limit",
     "service unavailable", "internal server error", "temporary failure",
     "try again"}

is_retryable_error(e) ==
    IF e.cls = "RetryableError" THEN TRUE
    ELSE IF e.cls = "NonRetryableError" THEN FALSE
    ELSE IF e.cls \in {"BedrockConnectionError", "MCPConnectionError"} THEN TRUE
    ELSE IF \E i \in 1..Len(e.msg) : e.msg[i] \in retryable_patterns THEN TRUE
    ELSE IF e.cls = "ValidationError" THEN FALSE
    ELSE FALSE

\* isinstance(e, retryable_exceptions) or is_retryable_error(e)
WrapperRetries(e) ==
    \/ e.cls \in {"RetryableError", "BedrockConnectionError", "MCPConnectionError"}
    \/ is_retryable_error(e)

\* process_batch_with_workflow is declared `async def`: calling it inside
\* the decorator's try block only builds a coroutine object and cannot
\* raise; the body runs, and raises, at the caller's `await`.
FuncIsCoroutine == TRUE

\* ------------------------------------------------------------ data model
\* Optional[IntegrationResult]: the empty sequence is None
NoResult == << >>

\* BatchProgress(batch_number=i)
NewBatchProgress ==
    [status |-> "pending", start_time |-> FALSE, end_time |-> FALSE,
     steps_completed |-> 0, error_message |-> NoMessage, retry_count |-> 0,
     integration_result |-> NoResult]

\* FlowProgress() followed by the constructor's loop over range(1, 20)
NewFlowProgress ==
    [status |-> "not_started", start_time |-> FALSE, end_time |-> FALSE,
     completed_batches |-> 0, failed_batches |-> 0, current_batch |-> None,
     pause_requested |-> FALSE, recovery_mode |-> FALSE,
     batch_progress |-> [b \in Batches |-> NewBatchProgress]]

\* datetime.isoformat() of a set timestamp, None (JSON null) of an unset
\* one, and datetime.fromisoformat of the stored text.
isoformat(t) == IF t THEN "iso" ELSE "null"
fromisoformat(x) == x # "null"

\* The entry save_state writes for one BatchProgress: every field but
\* integration_result.
BatchToJson(bp) ==
    [status |-> bp.status,
     start_time |-> isoformat(bp.start_time),
     end_time |-> isoformat(bp.end_time),
     steps_completed |-> bp.steps_completed,
     error_message |-> bp.error_message,
     retry_count |-> bp.retry_count]

\* The document save_state writes
ProgressToJson(p) ==
    [status |-> p.status,
     start_time |-> isoformat(p.start_time),
     end_time |-> isoformat(p.end_time),
     completed_batches |-> p.completed_batches,
     failed_batches |-> p.failed_batches,
     current_batch |-> p.current_batch,
     pause_requested |-> p.pause_requested,
     recovery_mode |-> p.recovery_mode,
     batch_progress |-> [b \in Batches |-> BatchToJson(p.batch_progress[b])]]

\* The BatchProgress load_state builds from one entry of the document;
\* integration_result is not passed to the constructor and takes its
\* default.
BatchFromJson(j) ==
    [status |-> j.status,
     start_time |-> fromisoformat(j.start_time),
     end_time |-> fromisoformat(j.end_time),
     steps_completed |-> j.steps_completed,
     error_message |-> j.error_message,
     retry_count |-> j.retry_count,
     integration_result |-> NoResult]

\* The FlowProgress load_state restores from the document
ProgressFromJson(j) ==
    [status |-> j.status,
     start_time |-> fromisoformat(j.start_time),
     end_time |-> fromisoformat(j.end_time),
     completed_batches |-> j.completed_batches,
     failed_batches |-> j.failed_batches,
     current_batch |-> j.current_batch,
     pause_requested |-> j.pause_requested,
     recovery_mode |-> j.recovery_mode,
     batch_progress |-> [b \in Batches |-> BatchFromJson(j.batch_progress[b])]]

\* save_state: json.dump of the document into the state file
save_state(p) == [kind |-> "ok", data |-> ProgressToJson(p)]

\* The state file: absent, a complete JSON document, or an unparseable one.
NoFile == [kind |-> "none", data |-> ProgressToJson(NewFlowProgress)]
GarbledFile == [kind |-> "garbled", data |-> ProgressToJson(NewFlowProgress)]

\* A stored value the constructors of load_state accept: FlowStatus(x) and
\* BatchStatus(x) raise ValueError for a text that is no member of the
\* enum, datetime.fromisoformat raises for a text that is no timestamp.
ValidTime(x) == x \in {"iso", "null"}
ValidBatchEntry(j) ==
    j.status \in BatchStatus /\ ValidTime(j.start_time) /\ ValidTime(j.end_time)

\* The first batch entry of the document that BatchProgress(...) cannot be
\* built from, NumBatches + 1 if there is none
FirstBadEntry(j) ==
    IF \A b \in Batches : ValidBatchEntry(j.batch_progress[b])
    THEN NumBatches + 1
    ELSE CHOOSE b \in Batches :
            /\ ~ValidBatchEntry(j.batch_progress[b])
            /\ \A a \in 1..(b - 1) : ValidBatchEntry(j.batch_progress[a])

\* load_state's return value: False if the file is absent, json.load
\* raises, or a value of the document raises in its constructor
load_ok(f) ==
    /\ f.kind = "ok"
    /\ f.data.status \in FlowStatus
    /\ ValidTime(f.data.start_time)
    /\ ValidTime(f.data.end_time)
    /\ FirstBadEntry(f.data) = NumBatches + 1

\* load_state's effect on self.progress: the fields are assigned one after
\* another, in the order of the code, up to the first value that raises;
\* the batches are replaced in the order of the document.
load_state(p, f) ==
    IF f.kind # "ok" THEN p
    ELSE LET j == f.data IN
         IF j.status \notin FlowStatus THEN p
         ELSE IF ~ValidTime(j.start_time) THEN [p EXCEPT !.status = j.status]
         ELSE IF ~ValidTime(j.end_time)
         THEN [p EXCEPT !.status = j.status,
                        !.start_time = fromisoformat(j.start_time)]
         ELSE [ProgressFromJson(j) EXCEPT
                 !.batch_progress =
                    [b \in Batches |->
                        IF b < FirstBadEntry(j)
                        THEN BatchFromJson(j.batch_progress[b])
                        ELSE p.batch_progress[b]]]

\* The statuses _execute_batch_steps assigns at the start of its steps.
StageStatus ==
    <<"analyzing", "researching", "generating", "validating", "optimizing",
      "integrating">>
NumStages == Len(StageStatus)

\* The steps whose supplier call can raise: the batch plan (step 1), the
\* question generation (step 3) and the database integration (step 6);
\* the research step catches its errors, validation and optimisation are
\* local stubs.
RaisingStages == {1, 3, 6}

VARIABLES
    pc,          \* position of the running process ("off": no process)
    cmd,         \* command of the running process: "run" or "resume"
    progress,    \* self.progress
    state_file,  \* the file save_state writes
    loop_i,      \* batch_number of the for loop
    stage,       \* step of _execute_batch_steps
    attempt,     \* attempt of the retry decorator
    exc,         \* exception in flight
    result,      \* what run_complete_flow returned: "none", "database", "raised"
    runs, faults, pauses, crashes,   \* budgets used
    \* history (observation only)
    trace,       \* statuses the current batch took during the current attempt
    started,     \* batches whose processing was started by this process
    start_file,  \* what the process found in the state file (see Found)
    paused_at,   \* {last batch picked by the loop when pause_flow was called}
    failed_at_pick, \* failed_batches when the loop picked the current batch
    fatal_in_loop   \* batch at which initialize_flow raised inside the loop, or 0

\* The store, its backups and one call of the integration
VARIABLES
    database,       \* the store file (questions.json)
    backup_files,   \* the files of the backup directory, by backup_id
    now,            \* the clock, in seconds
    ipc,            \* position inside the call ("idle": no call)
    question_batch, \* argument: the batch
    want_backup,    \* argument: create_backup
    backup_info,    \* local: Optional[DatabaseBackup]
    current_data,   \* local: the loaded store
    integrated_data,\* local: the merged store
    iattempt,       \* attempt of the retry decorator
    iexc,           \* exception in flight
    ireturn,        \* what the last call returned or raised
    calls, dbfaults,\* budgets used
    \* history (observation only)
    pre_store,      \* the store file when the call was made
    restores        \* copies of the backup over the store during the call

dbvars == <<database, backup_files, now, ipc, question_batch, want_backup,
            backup_info, current_data, integrated_data, iattempt, iexc,
            ireturn, calls, dbfaults, pre_store, restores>>

flowvars == <<pc, cmd, progress, state_file, loop_i, stage, attempt, exc, result,
          runs, faults, pauses, crashes, trace, started, start_file, paused_at, failed_at_pick, fatal_in_loop>>

\* create_backup, restore_from_backup and _restore_from_backup called from
\* outside an integration
VARIABLES
    bpc,        \* position inside restore_from_backup ("idle": no call)
    held,       \* the DatabaseBackup values create_backup returned, in order
    rarg,       \* argument of the restore: the backup_id, and the index in
                \* held of the last backup it can mean
    rret,       \* the last call that ended and what it gave
    ops, bkfaults,  \* budgets used
    \* history (observation only)
    rpre,       \* the store file when the restore was called
    rsrc,       \* the backup file the restore copied over the store
    rwhy        \* why restore_from_backup returned False

bkvars == <<bpc, held, rarg, rret, ops, bkfaults, rpre, rsrc, rwhy>>

\* The functions of core/error_handling.py and the validator, applied to
\* inputs of their own
VARIABLES
    d_in,       \* arguments of calculate_backoff_delay
    d_out,      \* the delays it gave for the attempt and for the next one
    wpc,        \* position inside the wrapper of retry_with_backoff
    w_cfg,      \* arguments of the decorator
    w_attempt,  \* attempt of the for loop
    w_out,      \* what the wrapper returned or raised
    \* history (observation only)
    w_invocations,  \* number of calls of the wrapped function
    w_raised,   \* the exceptions the wrapped function raised, in order
    w_inner,    \* the exceptions raised inside its body, in order
    w_slept,    \* the delays passed to time.sleep, in order
    v_in,       \* argument of validate_json_structure
    v_out       \* what it returned

fnvars == <<d_in, d_out, wpc, w_cfg, w_attempt, w_out, w_invocations,
            w_raised, w_inner, w_slept, v_in, v_out>>

\* calculate_backoff_delay, the retry wrapper, the validator
dvars == <<d_in, d_out>>
wvars == <<wpc, w_cfg, w_attempt, w_out, w_invocations, w_raised, w_inner,
           w_slept>>
vvars == <<v_in, v_out>>
vars == <<flowvars, dbvars, bkvars, fnvars>>

NoExc == [cls |-> "none", msg |-> NoMessage]
NotPaused == {}

\* ------------------------------------------------------------ store data
\* The question store (questions.json), its backups and the integration of
\* a batch (core/database_integration_agent.py).

\* Number of questions of a QuestionBatch (the program's batches hold 10).
BatchSize == 2
\* Number of calls of integrate_batch_with_structured_output.
MaxCalls == 1
\* Number of failures (of the agent, of a write, of a copy) over the calls.
MaxDbFaults == 2
\* Last second of the clock that names the backups.
MaxClock == 1
\* Number of calls of create_backup, of the restores and of changes of the
\* store made from outside an integration.
MaxOps == 3
\* Number of copies that fail during those calls.
MaxBkFaults == 1

\* decorator of integrate_batch_with_structured_output
integrate_max_retries == 3

\* The values of Question.domain, .difficulty and .type the model uses.
Domains == {"monitoring", "security"}
Difficulties == {"easy", "hard"}
QuestionTypes == {"single", "multiple"}

\* A question is its identifier and its three classifications; the
\* identifier f'q{n:03d}' is written n.
Question(n, dom, dif, typ) ==
    [id |-> n, domain |-> dom, difficulty |-> dif, type |-> typ]

\* The questions a batch is built from: one per classification that
\* differs, with the identifiers the generator gave them.
QuestionChoices ==
    {Question(1, "monitoring", "easy", "single"),
     Question(1, "security", "easy", "single"),
     Question(2, "monitoring", "hard", "single"),
     Question(9, "monitoring", "easy", "multiple")}

\* QuestionBatch.questions: batches of one question repeated, and a batch
\* of two kinds of question.
BatchChoices ==
    {[i \in 1..BatchSize |-> q] : q \in QuestionChoices}
      \cup {[i \in 1..BatchSize |->
               IF i = 1 THEN Question(1, "monitoring", "easy", "single")
               ELSE Question(1, "security", "easy", "single")]}

\* QuestionBatch.batch_number
BatchNumbers == {1, 2}

\* "Initialize empty database structure"
EmptyDatabase ==
    [total_questions |-> 0,
     domains |-> [d \in Domains |-> 0],
     difficulty |-> [d \in Difficulties |-> 0],
     question_types |-> [t \in QuestionTypes |-> 0],
     questions |-> << >>]

\* A file: absent, a complete JSON document, or a truncated one.
NoStore == [kind |-> "none", data |-> EmptyDatabase]
StoreOf(doc) == [kind |-> "ok", data |-> doc]
TornStore == [kind |-> "torn", data |-> EmptyDatabase]

\* Stores the program can find: none, stores of one question whose
\* count maps hold every key or lack the keys without questions, and a
\* store whose only question is q002 (q001 was removed from the file).
OneQuestion ==
    [total_questions |-> 1,
     domains |-> [d \in Domains |-> IF d = "monitoring" THEN 1 ELSE 0],
     difficulty |-> [d \in Difficulties |-> IF d = "easy" THEN 1 ELSE 0],
     question_types |-> [t \in QuestionTypes |-> IF t = "single" THEN 1 ELSE 0],
     questions |-> <<Question(1, "monitoring", "easy", "single")>>]

InitialStores ==
    {NoStore, StoreOf(OneQuestion),
     StoreOf([OneQuestion EXCEPT !.domains = [d \in {"monitoring"} |-> 1]]),
     StoreOf([OneQuestion EXCEPT !.difficulty = [d \in {"easy"} |-> 1]]),
     StoreOf([OneQuestion EXCEPT !.question_types = [t \in {"single"} |-> 1]]),
     StoreOf([OneQuestion EXCEPT
                !.questions = <<Question(2, "monitoring", "easy", "single")>>])}

RECURSIVE SumOver(_, _)
\* sum(map.values())
SumOver(f, S) ==
    IF S = {} THEN 0
    ELSE LET k == CHOOSE x \in S : TRUE IN f[k] + SumOver(f, S \ {k})

SumValues(f) == SumOver(f, DOMAIN f)

\* _perform_integration: identifiers continue after the number of stored
\* questions; a count is raised only for a key the map holds.
perform_integration(current, questions) ==
    LET current_questions == current.questions
        next_id_num == Len(current_questions) + 1
        new_questions ==
            [i \in 1..Len(questions) |->
                [questions[i] EXCEPT !.id = next_id_num + (i - 1)]]
        Counted(map, field) ==
            [k \in DOMAIN map |->
                map[k] + Cardinality({i \in 1..Len(new_questions) :
                                         new_questions[i][field] = k})]
    IN  [total_questions |-> Len(current_questions) + Len(new_questions),
         domains |-> Counted(current.domains, "domain"),
         difficulty |-> Counted(current.difficulty, "difficulty"),
         question_types |-> Counted(current.question_types, "type"),
         questions |-> current_questions \o new_questions]

\* One issue if the condition holds
IssueIf(cond, text) == IF cond THEN <<text>> ELSE << >>

\* required_fields of validate_json_structure, in the order of the list
required_fields ==
    <<"version", "generated_at", "total_questions", "domains", "difficulty",
      "question_types", "questions">>

RequiredFields == {required_fields[i] : i \in 1..Len(required_fields)}

\* f"Missing required field: {field}"
MissingIssue ==
    [f \in RequiredFields |->
        CASE f = "version" -> "Missing required field: version"
          [] f = "generated_at" -> "Missing required field: generated_at"
          [] f = "total_questions" -> "Missing required field: total_questions"
          [] f = "domains" -> "Missing required field: domains"
          [] f = "difficulty" -> "Missing required field: difficulty"
          [] f = "question_types" -> "Missing required field: question_types"
          [] f = "questions" -> "Missing required field: questions"]

\* A parsed JSON document, as validate_json_structure receives it: the set
\* of the required fields it holds and the values of the five fields the
\* checks read. The value of 'questions' is a list of objects or null; the
\* count maps hold integers.
JsonList(items) == [type |-> "list", items |-> items]
JsonNull == [type |-> "null", items |-> << >>]

\* The document of a store the program wrote: every field, a list
Json(data) ==
    [present |-> RequiredFields,
     total_questions |-> data.total_questions,
     domains |-> data.domains,
     difficulty |-> data.difficulty,
     question_types |-> data.question_types,
     questions |-> JsonList(data.questions)]

\* {} as a count map
EmptyMap == [k \in {} |-> 0]

\* data.get(field, default)
JsonGet(data, field, default) ==
    IF field \in data.present THEN data[field] ELSE default

\* validate_json_structure: (is_valid, issues), the issues in the order
\* of the checks. len(questions) raises TypeError when questions is null:
\* the except clause appends its issue and the checks after it are not
\* run.
validate_json_structure(data) ==
    LET missing ==
            SelectSeq(required_fields, LAMBDA f : f \notin data.present)
        questions == JsonGet(data, "questions", JsonList(<< >>))
        items == questions.items
        actual_ids == [i \in 1..Len(items) |-> items[i].id]
        expected_ids == [i \in 1..Len(items) |-> i]
        total_questions == JsonGet(data, "total_questions", 0)
        domains == JsonGet(data, "domains", EmptyMap)
        difficulty == JsonGet(data, "difficulty", EmptyMap)
        question_types == JsonGet(data, "question_types", EmptyMap)
        issues ==
            [i \in 1..Len(missing) |-> MissingIssue[missing[i]]]
            \o (IF questions.type # "list"
                THEN <<"'questions' must be an array",
                       "JSON structure validation error">>
                ELSE IssueIf(actual_ids # expected_ids,
                             "Question ID sequence is not continuous")
                     \o IssueIf(Len(items) # total_questions,
                                "Question count mismatch")
                     \o IssueIf(SumValues(domains) # total_questions,
                                "Domain distribution sum != total questions")
                     \o IssueIf(SumValues(difficulty) # total_questions,
                                "Difficulty distribution sum != total questions")
                     \o IssueIf(SumValues(question_types) # total_questions,
                                "Question types sum != total questions"))
    IN  [valid |-> issues = << >>, issues |-> issues]

\* validate_id_continuity: one issue per position whose identifier is not
\* the expected one, and one if an identifier occurs twice
validate_id_continuity(questions) ==
    LET n == Len(questions)
        mismatch == SelectSeq([i \in 1..n |-> i],
                              LAMBDA i : questions[i].id # i)
    IN  [k \in 1..Len(mismatch) |-> "ID mismatch"]
        \o IssueIf(\E i, j \in 1..n : i < j /\ questions[i].id = questions[j].id,
                   "Duplicate question IDs")

\* _calculate_checksum: the SHA-256 of the content of a file
calculate_checksum(file) == <<"sha256", file>>

\* backup_id = f"questions_backup_{timestamp}{batch_suffix}"
BackupId(timestamp, batch_number) == <<"questions_backup", timestamp, batch_number>>

\* DatabaseBackup(...)
DatabaseBackup(id, file) ==
    [backup_id |-> id, questions_count |-> Len(file.data.questions),
     checksum |-> calculate_checksum(file)]

\* Optional[DatabaseBackup]: the empty sequence is None
NoBackup == << >>

\* A backup_id no backup file is stored under
NoBackupId == <<"questions_backup", -1, None>>

\* The exceptions of the integration
DatabaseNotFound == [cls |-> "QuestionGenerationError", msg |-> <<"Database file not found">>]
JSONDecodeError == [cls |-> "JSONDecodeError", msg |-> <<"Expecting value">>]
OSError == [cls |-> "OSError", msg |-> <<"No space left on device">>]
IntegrityError == [cls |-> "QuestionGenerationError", msg |-> <<"Backup file integrity check failed">>]

\* Variant: a failed integration still reports the questions as added.
IntegrationResult_AddedAnyway(passed, batch, merged, structure_issues, id_issues, info) ==
    [success |-> passed,
     batch_number |-> batch.batch_number,
     questions_added |-> Len(batch.questions),
     new_total_questions |-> merged.total_questions,
     added_question_ids |->
        IF passed THEN [i \in 1..Len(batch.questions) |-> batch.questions[i].id]
        ELSE << >>,
     validation_passed |-> passed,
     schema_compliance |-> structure_issues = << >>,
     id_sequence_valid |-> id_issues = << >>,
     backup_created |-> info # NoBackup,
     backup_path |-> [i \in 1..Len(info) |-> info[i].backup_id],
     issues |-> structure_issues \o id_issues,
     rollback_available |-> info # NoBackup]

\* "Update integration result with actual values"
IntegrationResult(passed, batch, merged, structure_issues, id_issues, info) ==
    [success |-> passed,
     batch_number |-> batch.batch_number,
     questions_added |-> IF passed THEN Len(batch.questions) ELSE 0,
     new_total_questions |-> merged.total_questions,
     added_question_ids |->
        IF passed THEN [i \in 1..Len(batch.questions) |-> batch.questions[i].id]
        ELSE << >>,
     validation_passed |-> passed,
     schema_compliance |-> structure_issues = << >>,
     id_sequence_valid |-> id_issues = << >>,
     backup_created |-> info # NoBackup,
     backup_path |-> [i \in 1..Len(info) |-> info[i].backup_id],
     issues |-> structure_issues \o id_issues,
     rollback_available |-> info # NoBackup]

\* What the last call gave: nothing yet, a result, or an exception.
NoReturn == [kind |-> "none", value |-> << >>, error |-> NoExc]

\* Observation: what a process found in the state file: whether the file
\* could be read, the flow status it held and the batches it held Completed.
Found(f) ==
    [kind |-> f.kind,
     status |-> f.data.status,
     completed |-> {b \in Batches : f.data.batch_progress[b].status = "completed"}]

\* MainExecutionFlow(...) in a new process
FlowInitWith(files) ==
    /\ pc = "off"
    /\ cmd = "run"
    /\ progress = NewFlowProgress
    /\ state_file \in files
    /\ loop_i = 0
    /\ stage = 0
    /\ attempt = 0
    /\ exc = NoExc
    /\ result = "none"
    /\ runs = 0 /\ faults = 0 /\ pauses = 0 /\ crashes = 0
    /\ trace = << >>
    /\ started = {}
    /\ start_file = Found(NoFile)
    /\ paused_at = NotPaused
    /\ failed_at_pick = 0
    /\ fatal_in_loop = 0

\* No process yet and no state file
FlowInit == FlowInitWith({NoFile})

\* DatabaseIntegrationAgent(...) with the store one of S and no call made
StoreInit(S) ==
    /\ database \in S
    /\ backup_files = {}
    /\ now = 0
    /\ ipc = "idle"
    /\ question_batch = [batch_number |-> 1, questions |-> << >>]
    /\ want_backup = FALSE
    /\ backup_info = NoBackup
    /\ current_data = EmptyDatabase
    /\ integrated_data = EmptyDatabase
    /\ iattempt = 0
    /\ iexc = NoExc
    /\ ireturn = NoReturn
    /\ calls = 0 /\ dbfaults = 0
    /\ pre_store = NoStore
    /\ restores = 0

\* No call of the backup operations made
BackupInit ==
    /\ bpc = "idle"
    /\ held = << >>
    /\ rarg = [id |-> NoBackupId, nheld |-> 0]
    /\ rret = [op |-> "none", value |-> "none"]
    /\ ops = 0 /\ bkfaults = 0
    /\ rpre = NoStore
    /\ rsrc = NoStore
    /\ rwhy = "none"

\* ------------------------------------------------ backoff delay: data
\* Delays are written in tenths of a second (base_delay = 1.0 is 10).
\* Largest attempt number calculate_backoff_delay is applied to.
MaxAttempt == 7

\* Defaults of calculate_backoff_delay and retry_with_backoff
default_base_delay == 10
default_max_delay == 600
exponential_base == 2

\* random.uniform(-jitter_amount, jitter_amount): the two ends of the
\* interval and its middle, as multiples of jitter_amount
UniformDraws == {-1, 0, 1}

RECURSIVE Pow(_, _)
\* exponential_base ** attempt
Pow(b, n) == IF n = 0 THEN 1 ELSE b * Pow(b, n - 1)

Min2(a, b) == IF a <= b THEN a ELSE b
Max2(a, b) == IF a >= b THEN a ELSE b

\* calculate_backoff_delay; u is the draw of random.uniform
calculate_backoff_delay(n, base_delay, max_delay, base, jitter, u) ==
    LET capped == Min2(base_delay * Pow(base, n), max_delay)
        jitter_amount == capped \div 10
    IN  Max2(0, IF jitter THEN capped + u * jitter_amount ELSE capped)

\* The arguments calculate_backoff_delay is applied to: the defaults and a
\* smaller max_delay, with the draws for the attempt and for the next one.
DelayInputs ==
    [attempt : 0..MaxAttempt,
     base_delay : {default_base_delay},
     max_delay : {30, default_max_delay},
     jitter : BOOLEAN,
     u_this : UniformDraws,
     u_next : UniformDraws]

NoDelayInput ==
    [attempt |-> 0, base_delay |-> 0, max_delay |-> 0, jitter |-> FALSE,
     u_this |-> 0, u_next |-> 0]

NoDelay == [kind |-> "none", this |-> 0, next |-> 0]

\* calculate_backoff_delay not applied yet, its arguments one of S
DelayInit(S) ==
    /\ d_in \in S
    /\ d_out = NoDelay

\* ------------------------------------------------ retry decorator: data
\* The `except Exception as e` handler of the decorated function: none,
\* or the one of integrate_batch_with_structured_output or of
\* process_batch_with_workflow, which raise QuestionGenerationError with
\* their prefix and str(e).
Handlers == {"none", "Failed to integrate batch", "Failed to process batch"}

\* What leaves the decorated function when e is raised in its body
Reraised(handler, e) == IF handler = "none" THEN e ELSE WrapError(handler, e)

\* The arguments of retry_with_backoff: max_retries = 0, 1 and the 3 the
\* program passes, jitter on or off, the default delays; and the handler
\* of the function it decorates.
WrapperConfigs ==
    [max_retries : {0, 1, wrapper_max_retries},
     base_delay : {default_base_delay},
     max_delay : {default_max_delay},
     jitter : BOOLEAN,
     handler : Handlers]

NoConfig ==
    [max_retries |-> 0, base_delay |-> 0, max_delay |-> 0, jitter |-> FALSE,
     handler |-> "none"]

\* What the wrapped function can raise: one exception per class and per
\* message with and without a retryable pattern.
UnitErrors ==
    {[cls |-> "RetryableError", msg |-> <<"busy">>],
     [cls |-> "NonRetryableError", msg |-> <<"timeout">>],
     [cls |-> "ValidationError", msg |-> <<"schema">>],
     [cls |-> "ValidationError", msg |-> <<"timeout">>],
     TimeoutError,
     [cls |-> "Exception", msg |-> <<"boom">>]}

\* The wrapper not called yet
WrapperInit ==
    /\ wpc = "idle"
    /\ w_cfg = NoConfig
    /\ w_attempt = 0
    /\ w_out = NoReturn
    /\ w_invocations = 0
    /\ w_raised = << >>
    /\ w_inner = << >>
    /\ w_slept = << >>

\* ------------------------------------------------------ validator: data
\* Largest declared total, largest count and longest list of questions of
\* the documents validate_json_structure is applied to.
MaxTotal == 2

\* The lists of at most MaxTotal questions with identifiers 1..MaxTotal
QuestionLists ==
    UNION {[1..n -> {Question(k, "monitoring", "easy", "single") :
                        k \in 1..MaxTotal}] : n \in 0..MaxTotal}

\* The sets of required fields a document holds: all, all but one, none
\* of the three count maps, none at all.
PresentChoices ==
    {RequiredFields, {}, RequiredFields \ {"domains", "difficulty", "question_types"}}
      \cup {RequiredFields \ {f} : f \in RequiredFields}

\* The documents: a field the document lacks has the value get() gives.
JsonDocuments ==
    {d \in [present : PresentChoices,
            total_questions : 0..MaxTotal,
            domains : {[k \in {"monitoring"} |-> n] : n \in 0..MaxTotal} \cup {EmptyMap},
            difficulty : {[k \in {"easy"} |-> n] : n \in 0..MaxTotal} \cup {EmptyMap},
            question_types : {[k \in {"single"} |-> n] : n \in 0..MaxTotal} \cup {EmptyMap},
            questions : {JsonList(l) : l \in QuestionLists} \cup {JsonNull}] :
        /\ "total_questions" \notin d.present => d.total_questions = 0
        /\ "domains" \notin d.present => d.domains = EmptyMap
        /\ "difficulty" \notin d.present => d.difficulty = EmptyMap
        /\ "question_types" \notin d.present => d.question_types = EmptyMap
        /\ "questions" \notin d.present => d.questions = JsonList(<< >>)}

NoVerdict == [kind |-> "none", valid |-> FALSE, issues |-> << >>]

\* validate_json_structure not applied yet, its argument one of S
ValidateInit(S) ==
    /\ v_in \in S
    /\ v_out = NoVerdict

\* Nothing of the functions in use
FnIdle ==
    /\ DelayInit({NoDelayInput})
    /\ WrapperInit
    /\ ValidateInit({Json(EmptyDatabase)})

Init == FlowInit /\ StoreInit({NoStore}) /\ BackupInit /\ FnIdle

\* Positions of a live process, and those at which the next step of the
\* code opens the state file for writing.
Alive == pc \notin {"off", "done"}
SavingPcs == {"init_begin", "init_body", "rcf_running", "pb_start", "st_begin",
              "st_call", "pb_complete", "pb_except", "loop_save", "final_db"}

cur == progress.batch_progress[loop_i]

\* Observation: the status sequence of the current attempt.
Observe(t, s) == IF t # << >> /\ t[Len(t)] = s THEN t ELSE Append(t, s)

\* ---------------------------------------------------------------- process
\* main(): QuestionGenerationRunner() builds a new MainExecutionFlow, then
\* the command `run` or `resume` is executed.
StartRun(c) ==
    /\ pc \in {"off", "done"}
    /\ runs < MaxRuns
    /\ runs' = runs + 1
    /\ cmd' = c
    /\ progress' = NewFlowProgress
    /\ pc' = IF c = "run" THEN "rcf_load" ELSE "res_load"
    /\ loop_i' = 0 /\ stage' = 0 /\ attempt' = 0 /\ exc' = NoExc
    /\ result' = "none"
    /\ trace' = << >> /\ started' = {} /\ start_file' = Found(state_file)
    /\ paused_at' = NotPaused /\ failed_at_pick' = 0 /\ fatal_in_loop' = 0
    /\ UNCHANGED <<state_file, faults, pauses, crashes>>
    /\ UNCHANGED <<dbvars, bkvars, fnvars>>

\* The process is killed.  If it was inside save_state's open(..., 'w') /
\* json.dump the file is left truncated.
Crash ==
    /\ Alive
    /\ faults + pauses + crashes < MaxEvents
    /\ crashes' = crashes + 1
    /\ pc' = "off"
    /\ progress' = NewFlowProgress
    /\ loop_i' = 0 /\ stage' = 0 /\ attempt' = 0 /\ exc' = NoExc
    /\ \E torn \in BOOLEAN :
          /\ torn => pc \in SavingPcs
          /\ state_file' = IF torn THEN GarbledFile ELSE state_file
    /\ cmd' = "run" /\ result' = "none"
    /\ trace' = << >> /\ started' = {} /\ start_file' = Found(NoFile)
    /\ paused_at' = NotPaused /\ failed_at_pick' = 0 /\ fatal_in_loop' = 0
    /\ UNCHANGED <<runs, faults, pauses>>
    /\ UNCHANGED <<dbvars, bkvars, fnvars>>

\* pause_flow, called by the signal handler of main.py at any moment.
pause_flow ==
    /\ Alive
    /\ faults + pauses + crashes < MaxEvents
    /\ pauses' = pauses + 1
    /\ progress' = [progress EXCEPT !.pause_requested = TRUE]
    /\ paused_at' = IF paused_at # NotPaused THEN paused_at
                    ELSE IF pc = "loop_head" THEN {loop_i - 1} ELSE {loop_i}
    /\ UNCHANGED <<pc, cmd, state_file, loop_i, stage, attempt, exc, result,
                   runs, crashes, faults, trace, started, start_file,
                   failed_at_pick, fatal_in_loop>>
    /\ UNCHANGED <<dbvars, bkvars, fnvars>>

\* Variant: the status is not tested.
resume_flow_Unconditional(p) ==
    [p EXCEPT !.pause_requested = FALSE, !.status = "running"]

\* resume_flow
resume_flow(p) ==
    IF p.status = "paused"
    THEN [p EXCEPT !.pause_requested = FALSE, !.status = "running"]
    ELSE p

\* Return of run_complete_flow (or of resume_generation) to main().
Finish(r) ==
    /\ pc' = "done"
    /\ result' = r

\* ------------------------------------------------------ resume_generation
ResLoad ==
    /\ pc = "res_load"
    /\ progress' = load_state(progress, state_file)
    /\ IF load_ok(state_file)
       THEN pc' = "res_resume" /\ UNCHANGED result
       ELSE Finish("none")
    /\ UNCHANGED <<cmd, state_file, loop_i, stage, attempt, exc, runs, crashes, faults,
                   pauses, trace, started, start_file, paused_at,
                   failed_at_pick, fatal_in_loop>>
    /\ UNCHANGED <<dbvars, bkvars, fnvars>>

ResResume ==
    /\ pc = "res_resume"
    /\ progress' = resume_flow(progress)
    /\ pc' = "rcf_load"
    /\ UNCHANGED <<cmd, state_file, loop_i, stage, attempt, exc, result, runs, crashes,
                   faults, pauses, trace, started, start_file,
                   paused_at, failed_at_pick, fatal_in_loop>>
    /\ UNCHANGED <<dbvars, bkvars, fnvars>>

\* ------------------------------------------------------ run_complete_flow
\* Variant: the result of load_state is negated.
Resuming_LoadNegated(ok, p) == ~ok \/ p.status \in {"paused", "running"}

\* `if self.load_state() and self.progress.status in [PAUSED, RUNNING]`
Resuming(ok, p) == ok /\ p.status \in {"paused", "running"}

RcfLoad ==
    /\ pc = "rcf_load"
    /\ LET p1 == load_state(progress, state_file) IN
         IF Resuming(load_ok(state_file), p1)
         THEN /\ progress' = [p1 EXCEPT !.recovery_mode = TRUE]
              /\ pc' = "rcf_running"
         ELSE /\ progress' = p1
              /\ pc' = "init_begin"
    /\ UNCHANGED <<cmd, state_file, loop_i, stage, attempt, exc, result, runs, crashes,
                   faults, pauses, trace, started, start_file,
                   paused_at, failed_at_pick, fatal_in_loop>>
    /\ UNCHANGED <<dbvars, bkvars, fnvars>>

\* initialize_flow, first part: status INITIALIZING, start_time, save_state.
\* It is called on a fresh start (loop_i = 0) and, because the attribute
\* self.exam_analysis is never assigned, before every batch of the loop.
InitBegin ==
    /\ pc = "init_begin"
    /\ progress' = [progress EXCEPT !.status = "initializing",
                                    !.start_time = TRUE]
    /\ state_file' = save_state(progress')
    /\ pc' = "init_body"
    /\ UNCHANGED <<cmd, loop_i, stage, attempt, exc, result, runs, crashes, faults,
                   pauses, trace, started, start_file, paused_at,
                   failed_at_pick, fatal_in_loop>>
    /\ UNCHANGED <<dbvars, bkvars, fnvars>>

\* initialize_flow returns the exam analysis.
InitOk ==
    /\ pc = "init_body"
    /\ pc' = IF loop_i = 0 THEN "rcf_running" ELSE "wrapper_call"
    /\ UNCHANGED <<cmd, progress, state_file, loop_i, stage, attempt, exc,
                   result, runs, crashes, faults, pauses, trace, started, start_file, paused_at, failed_at_pick, fatal_in_loop>>
    /\ UNCHANGED <<dbvars, bkvars, fnvars>>

\* The error initialize_flow meets when the exam guide file is missing.
InitErrors == {ExamGuideMissing}

\* The outer handler of run_complete_flow (`except Exception` at the end).
FlowExcept(p) == [p EXCEPT !.status = "failed"]

\* initialize_flow's handler: status FAILED, save_state, raise wrapped.  On a
\* fresh start the exception reaches the outer handler of run_complete_flow;
\* inside the loop it is caught by the loop's handler.
InitFail ==
    /\ pc = "init_body"
    /\ faults + pauses + crashes < MaxEvents
    /\ faults' = faults + 1
    /\ \E e \in InitErrors :
         /\ progress' = IF loop_i = 0
                        THEN FlowExcept([progress EXCEPT !.status = "failed"])
                        ELSE [progress EXCEPT !.status = "failed"]
         /\ state_file' = save_state(progress')
         /\ IF loop_i = 0
            THEN /\ Finish("raised")
                 /\ exc' = NoExc
                 /\ UNCHANGED fatal_in_loop
            ELSE /\ pc' = "loop_except"
                 /\ exc' = WrapError("Failed to initialize execution flow", e)
                 /\ fatal_in_loop' = loop_i
                 /\ UNCHANGED result
    /\ UNCHANGED <<cmd, loop_i, stage, attempt, runs, crashes, pauses, trace, started,
                   start_file, paused_at, failed_at_pick>>
    /\ UNCHANGED <<dbvars, bkvars, fnvars>>

\* `self.progress.status = FlowStatus.RUNNING; self.save_state()` and entry
\* of the loop.
SetRunning ==
    /\ pc = "rcf_running"
    /\ progress' = [progress EXCEPT !.status = "running"]
    /\ state_file' = save_state(progress')
    /\ loop_i' = 1
    /\ pc' = "loop_head"
    /\ UNCHANGED <<cmd, stage, attempt, exc, result, runs, crashes, faults, pauses,
                   trace, started, start_file, paused_at,
                   failed_at_pick, fatal_in_loop>>
    /\ UNCHANGED <<dbvars, bkvars, fnvars>>

\* `if self.progress.pause_requested`
PauseCheck(p) == p.pause_requested

\* `if self.progress.recovery_mode and ...status == BatchStatus.COMPLETED`
SkipCheck(p, b) == p.recovery_mode /\ p.batch_progress[b].status = "completed"

\* Variant: the retry count of the batch is not looked at.
MayProcess_Always(bp) == bp.retry_count >= 0

\* `if batch_progress.retry_count < batch_progress.max_retries`
MayProcess(bp) == bp.retry_count < max_retries

\* "Batch failed after max_retries retries"
GiveUp(p, b) ==
    [p EXCEPT !.current_batch = b,
              !.batch_progress[b].status = "failed",
              !.failed_batches = @ + 1]

\* Top of one loop iteration, up to the call that processes the batch.
LoopHead ==
    /\ pc = "loop_head"
    /\ loop_i \in Batches
    /\ IF PauseCheck(progress)
       THEN /\ progress' = [progress EXCEPT !.status = "paused"]
            /\ state_file' = save_state(progress')
            /\ Finish("none")
            /\ UNCHANGED <<loop_i, failed_at_pick>>
       ELSE IF SkipCheck(progress, loop_i)
       THEN /\ loop_i' = loop_i + 1
            /\ UNCHANGED <<pc, progress, state_file, result,
                           failed_at_pick>>
       ELSE IF MayProcess(cur)
       THEN /\ progress' = [progress EXCEPT !.current_batch = loop_i]
            /\ failed_at_pick' = progress.failed_batches
            /\ pc' = "init_begin"
            /\ UNCHANGED <<state_file, loop_i, result>>
       ELSE /\ progress' = GiveUp(progress, loop_i)
            /\ failed_at_pick' = progress.failed_batches
            /\ pc' = "loop_save"
            /\ UNCHANGED <<state_file, loop_i, result>>
    /\ UNCHANGED <<cmd, stage, attempt, exc, runs, crashes, faults, pauses, trace,
                   started, start_file, paused_at, fatal_in_loop>>
    /\ UNCHANGED <<dbvars, bkvars, fnvars>>

\* The decorator's wrapper: `for attempt in range(max_retries + 1): try:
\* return func(*args, **kwargs)`.
WrapperCall ==
    /\ pc = "wrapper_call"
    /\ attempt' = 0
    /\ pc' = "pb_start"
    /\ UNCHANGED <<cmd, progress, state_file, loop_i, stage, exc, result, runs, crashes,
                   faults, pauses, trace, started, start_file,
                   paused_at, failed_at_pick, fatal_in_loop>>
    /\ UNCHANGED <<dbvars, bkvars, fnvars>>

\* ------------------------------------------- process_batch_with_workflow
\* Entry of the body: status ANALYZING, start_time, save_state.
PbStart ==
    /\ pc = "pb_start"
    /\ progress' = [progress EXCEPT
                      !.batch_progress[loop_i].status = "analyzing",
                      !.batch_progress[loop_i].start_time = TRUE]
    /\ state_file' = save_state(progress')
    /\ trace' = <<"analyzing">>
    /\ started' = started \cup {loop_i}
    /\ stage' = 1
    /\ pc' = "st_begin"
    /\ UNCHANGED <<cmd, loop_i, attempt, exc, result, runs, crashes, faults, pauses,
                   start_file, paused_at, failed_at_pick,
                   fatal_in_loop>>
    /\ UNCHANGED <<dbvars, bkvars, fnvars>>

\* _execute_batch_steps, start of step `stage`: current_step, status,
\* save_state.
StBegin ==
    /\ pc = "st_begin"
    /\ progress' = [progress EXCEPT
                      !.batch_progress[loop_i].status = StageStatus[stage]]
    /\ state_file' = save_state(progress')
    /\ trace' = Observe(trace, StageStatus[stage])
    /\ pc' = "st_call"
    /\ UNCHANGED <<cmd, loop_i, stage, attempt, exc, result, runs, crashes, faults,
                   pauses, started, start_file, paused_at,
                   failed_at_pick, fatal_in_loop>>
    /\ UNCHANGED <<dbvars, bkvars, fnvars>>

\* Variant: steps_completed is counted but not saved.
StOk_NotSaved ==
    /\ pc = "st_call"
    /\ progress' = [progress EXCEPT
                      !.batch_progress[loop_i].steps_completed = stage]
    /\ IF stage < NumStages
       THEN stage' = stage + 1 /\ pc' = "st_begin"
       ELSE stage' = stage /\ pc' = "pb_complete"
    /\ UNCHANGED <<cmd, state_file, loop_i, attempt, exc, result, runs, crashes,
                   faults, pauses, trace, started, start_file, paused_at,
                   failed_at_pick, fatal_in_loop>>
    /\ UNCHANGED <<dbvars, bkvars, fnvars>>

\* The supplier call of the step returns: steps_completed, save_state.
StOk ==
    /\ pc = "st_call"
    /\ progress' = [progress EXCEPT
                      !.batch_progress[loop_i].steps_completed = stage]
    /\ state_file' = save_state(progress')
    /\ IF stage < NumStages
       THEN stage' = stage + 1 /\ pc' = "st_begin"
       ELSE stage' = stage /\ pc' = "pb_complete"
    /\ UNCHANGED <<cmd, loop_i, attempt, exc, result, runs, crashes, faults, pauses,
                   trace, started, start_file, paused_at,
                   failed_at_pick, fatal_in_loop>>
    /\ UNCHANGED <<dbvars, bkvars, fnvars>>

\* The supplier call of the step raises.
StRaise ==
    /\ pc = "st_call"
    /\ stage \in RaisingStages
    /\ faults + pauses + crashes < MaxEvents
    /\ faults' = faults + 1
    /\ \E e \in SupplierErrors :
         exc' = IF stage = NumStages
                THEN WrapError("Failed to integrate batch", e)
                ELSE e
    /\ pc' = "pb_except"
    /\ UNCHANGED <<cmd, progress, state_file, loop_i, stage, attempt, result,
                   runs, crashes, pauses, trace, started, start_file,
                   paused_at, failed_at_pick, fatal_in_loop>>
    /\ UNCHANGED <<dbvars, bkvars, fnvars>>

\* The IntegrationResult _execute_batch_steps returns for batch b
IntegrationResultOf(b) == <<[batch_number |-> b]>>

\* "Mark batch as completed" and "Update overall progress"
CompleteBatch(p, b) ==
    [p EXCEPT !.batch_progress[b].status = "completed",
              !.batch_progress[b].end_time = TRUE,
              !.batch_progress[b].steps_completed = total_steps,
              !.batch_progress[b].integration_result = IntegrationResultOf(b),
              !.completed_batches = @ + 1]

PbComplete ==
    /\ pc = "pb_complete"
    /\ progress' = CompleteBatch(progress, loop_i)
    /\ state_file' = save_state(progress')
    /\ trace' = Observe(trace, "completed")
    /\ pc' = "loop_save"
    /\ UNCHANGED <<cmd, loop_i, stage, attempt, exc, result, runs, crashes, faults,
                   pauses, started, start_file, paused_at,
                   failed_at_pick, fatal_in_loop>>
    /\ UNCHANGED <<dbvars, bkvars, fnvars>>

\* Variant: the handler forgets to count the attempt.
FailBatch_NoRetryCount(p, b, e) ==
    [p EXCEPT !.batch_progress[b].status = "failed",
              !.batch_progress[b].error_message = e.msg,
              !.failed_batches = @ + 1]

\* The handler of process_batch_with_workflow
FailBatch(p, b, e) ==
    [p EXCEPT !.batch_progress[b].status = "failed",
              !.batch_progress[b].error_message = e.msg,
              !.batch_progress[b].retry_count = @ + 1,
              !.failed_batches = @ + 1]

\* The decorator's handler, reached only by an exception raised inside its
\* try block: give up on the last attempt or on a non-retryable error.
WrapperGivesUp(a, e) == a = wrapper_max_retries \/ ~WrapperRetries(e)

\* The body's handler, then the propagation of the wrapped exception: to
\* the `await` of run_complete_flow for a coroutine function, into the
\* decorator's handler otherwise.
PbExcept ==
    /\ pc = "pb_except"
    /\ progress' = FailBatch(progress, loop_i, exc)
    /\ state_file' = save_state(progress')
    /\ exc' = WrapError("Failed to process batch", exc)
    /\ trace' = Observe(trace, "failed")
    /\ IF FuncIsCoroutine \/ WrapperGivesUp(attempt, exc')
       THEN pc' = "loop_except" /\ UNCHANGED attempt
       ELSE pc' = "pb_start" /\ attempt' = attempt + 1
    /\ UNCHANGED <<cmd, loop_i, stage, result, runs, crashes, faults, pauses, started,
                   start_file, paused_at, failed_at_pick,
                   fatal_in_loop>>
    /\ UNCHANGED <<dbvars, bkvars, fnvars>>

\* Variant: the loop's handler leaves the status of the batch alone.
LoopFail_StatusKept(p, b, e) ==
    [p EXCEPT !.batch_progress[b].error_message = e.msg,
              !.failed_batches = @ + 1]

\* The loop's handler in run_complete_flow
LoopFail(p, b, e) ==
    [p EXCEPT !.batch_progress[b].status = "failed",
              !.batch_progress[b].error_message = e.msg,
              !.failed_batches = @ + 1]

LoopExcept ==
    /\ pc = "loop_except"
    /\ progress' = LoopFail(progress, loop_i, exc)
    /\ exc' = NoExc
    /\ pc' = "loop_save"
    /\ UNCHANGED <<cmd, state_file, loop_i, stage, attempt, result, runs, crashes,
                   faults, pauses, trace, started, start_file,
                   paused_at, failed_at_pick, fatal_in_loop>>
    /\ UNCHANGED <<dbvars, bkvars, fnvars>>

\* End of one loop iteration: save_state, progress report, next batch.
LoopSave ==
    /\ pc = "loop_save"
    /\ state_file' = save_state(progress)
    /\ loop_i' = loop_i + 1
    /\ pc' = "loop_head"
    /\ trace' = << >>
    /\ UNCHANGED <<cmd, progress, stage, attempt, exc, result, runs, crashes, faults,
                   pauses, started, start_file, paused_at,
                   failed_at_pick, fatal_in_loop>>
    /\ UNCHANGED <<dbvars, bkvars, fnvars>>

\* Variant: the completion leaves current_batch at the last batch.
CompleteFlow_BatchKept(p) ==
    [p EXCEPT !.status = "completed", !.end_time = TRUE]

\* "Complete the flow"
CompleteFlow(p) ==
    [p EXCEPT !.status = "completed", !.end_time = TRUE,
              !.current_batch = None]

LoopEnd ==
    /\ pc = "loop_head"
    /\ loop_i = NumBatches + 1
    /\ progress' = CompleteFlow(progress)
    /\ state_file' = save_state(progress')
    /\ pc' = "final_db"
    /\ UNCHANGED <<cmd, loop_i, stage, attempt, exc, result, runs, crashes, faults,
                   pauses, trace, started, start_file, paused_at,
                   failed_at_pick, fatal_in_loop>>
    /\ UNCHANGED <<dbvars, bkvars, fnvars>>

\* create_final_database_with_structured_output returns the database.
FinalDbOk ==
    /\ pc = "final_db"
    /\ Finish("database")
    /\ UNCHANGED <<cmd, progress, state_file, loop_i, stage, attempt, exc,
                   runs, crashes, faults, pauses, trace, started, start_file,
                   paused_at, failed_at_pick, fatal_in_loop>>
    /\ UNCHANGED <<dbvars, bkvars, fnvars>>

\* create_final_database_with_structured_output raises: outer handler.
FinalDbFail ==
    /\ pc = "final_db"
    /\ faults + pauses + crashes < MaxEvents
    /\ faults' = faults + 1
    /\ progress' = FlowExcept(progress)
    /\ state_file' = save_state(progress')
    /\ Finish("raised")
    /\ UNCHANGED <<cmd, loop_i, stage, attempt, exc, runs, crashes, pauses, trace,
                   started, start_file, paused_at, failed_at_pick,
                   fatal_in_loop>>
    /\ UNCHANGED <<dbvars, bkvars, fnvars>>

Next ==
    \/ \E c \in {"run", "resume"} : StartRun(c)
    \/ Crash
    \/ pause_flow
    \/ ResLoad
    \/ ResResume
    \/ RcfLoad
    \/ InitBegin
    \/ InitOk
    \/ InitFail
    \/ SetRunning
    \/ LoopHead
    \/ WrapperCall
    \/ PbStart
    \/ StBegin
    \/ StOk
    \/ StRaise
    \/ PbComplete
    \/ PbExcept
    \/ LoopExcept
    \/ LoopSave
    \/ LoopEnd
    \/ FinalDbOk
    \/ FinalDbFail

Spec == Init /\ [][Next]_vars

\* The steps of the running process itself: everything but the start of a
\* process, its kill and the signal.  The event loop runs the coroutine to
\* its end, so a step that can be taken is eventually taken.
Step ==
    \/ ResLoad \/ ResResume \/ RcfLoad \/ InitBegin \/ InitOk \/ InitFail
    \/ SetRunning \/ LoopHead \/ WrapperCall \/ PbStart \/ StBegin \/ StOk
    \/ StRaise \/ PbComplete \/ PbExcept \/ LoopExcept \/ LoopSave \/ LoopEnd
    \/ FinalDbOk \/ FinalDbFail

\* The processes that nobody kills and nobody asks to pause, run to their
\* end one after another.
FairNext ==
    \/ \E c \in {"run", "resume"} : StartRun(c)
    \/ Step

FairSpec == Init /\ [][FairNext]_vars /\ WF_vars(Step)

\* ------------------------------------------------- runs after earlier runs
\* The state file that earlier runs left.  Each of these runs started with
\* the command `run`, found no state file or the file of a finished run,
\* met one supplier failure, in step 1 of batch 1, and ran to its end.
\* The progress after one iteration of the loop for batch b:
IterationOf(p, b) ==
    LET picked == [p EXCEPT !.current_batch = b]
        begun == [picked EXCEPT !.status = "initializing", !.start_time = TRUE,
                                !.batch_progress[b].status = "analyzing",
                                !.batch_progress[b].start_time = TRUE]
    IN  IF ~MayProcess(p.batch_progress[b]) THEN GiveUp(p, b)
        ELSE IF b = 1
        THEN LoopFail(FailBatch(begun, b, TimeoutError), b,
                      WrapError("Failed to process batch", TimeoutError))
        ELSE CompleteBatch(
                [begun EXCEPT !.batch_progress[b].status = StageStatus[NumStages],
                              !.batch_progress[b].steps_completed = NumStages],
                b)

RECURSIVE LoopFrom(_, _)
\* The progress after the iterations for the batches b..NumBatches
LoopFrom(p, b) ==
    IF b > NumBatches THEN p ELSE LoopFrom(IterationOf(p, b), b + 1)

RECURSIVE FileAfterRuns(_)
\* The state file after k such runs
FileAfterRuns(k) ==
    IF k = 0 THEN NoFile
    ELSE LET loaded == load_state(NewFlowProgress, FileAfterRuns(k - 1))
             running == [loaded EXCEPT !.status = "running", !.start_time = TRUE]
         IN  save_state(CompleteFlow(LoopFrom(running, 1)))

\* The numbers of earlier runs: batch 1 has one retry left, or none.
PriorRuns == {max_retries - 1, max_retries}

RestartInit ==
    /\ FlowInitWith({FileAfterRuns(k) : k \in PriorRuns})
    /\ StoreInit({NoStore}) /\ BackupInit /\ FnIdle

\* Processes run one after another on the state file of the earlier runs.
RestartSpec == RestartInit /\ [][FairNext]_vars

\* ------------------------------------------- runs on a damaged state file
\* The state file of a finished run with one value replaced by a text its
\* constructor rejects: the flow status, the start time, or the status of
\* the entry of batch b.
BadStatus(f) == [f EXCEPT !.data.status = "bogus"]
BadStartTime(f) == [f EXCEPT !.data.start_time = "not-a-date"]
BadBatchStatus(f, b) == [f EXCEPT !.data.batch_progress[b].status = "bogus"]

\* The state files a process can find: none, an unparseable one, the file
\* of a finished run, and that file with one invalid value.
LoadFiles ==
    {NoFile, GarbledFile, FileAfterRuns(1),
     BadStatus(FileAfterRuns(1)), BadStartTime(FileAfterRuns(1))}
      \cup {BadBatchStatus(FileAfterRuns(1), b) : b \in Batches}

LoadInit ==
    /\ FlowInitWith(LoadFiles)
    /\ StoreInit({NoStore}) /\ BackupInit /\ FnIdle

\* Processes run one after another, the first on one of these files.
LoadSpec == LoadInit /\ [][FairNext]_vars

\* ============================================================ the store
\* integrate_batch_with_structured_output under its retry decorator, one
\* call at a time, against the store file and the backup directory.  The
\* store file is visible to other readers at every step.

\* The file stored under a backup identifier, and the write of one.
BackupFile(id) == (CHOOSE b \in backup_files : b.backup_id = id).file
BackupExists(id) == \E b \in backup_files : b.backup_id = id
PutBackup(id, file) ==
    {b \in backup_files : b.backup_id # id} \cup {[backup_id |-> id, file |-> file]}

\* datetime.now() at a later call: the same second or the next one
Later == {t \in {now, now + 1} : t <= MaxClock}

\* A caller invokes integrate_batch_with_structured_output(batch, flag).
IntegrateCall(questions, number, flag, t) ==
    /\ ipc = "idle"
    /\ calls < MaxCalls
    /\ calls' = calls + 1
    /\ question_batch' = [batch_number |-> number, questions |-> questions]
    /\ want_backup' = flag
    /\ now' = t
    /\ iattempt' = 0
    /\ backup_info' = NoBackup
    /\ current_data' = EmptyDatabase
    /\ integrated_data' = EmptyDatabase
    /\ iexc' = NoExc
    /\ ireturn' = NoReturn
    /\ pre_store' = database
    /\ restores' = 0
    /\ ipc' = "backup"
    /\ UNCHANGED <<database, backup_files, dbfaults>>
    /\ UNCHANGED <<flowvars, bkvars, fnvars>>

\* `if create_backup: backup_info = self.create_backup(batch_number)`.
\* create_backup raises if the store is missing; otherwise it copies the
\* file and then reads the copy, which raises if it is not JSON.
ICreateBackup ==
    /\ ipc = "backup"
    /\ LET id == BackupId(now, question_batch.batch_number) IN
         IF ~want_backup
         THEN /\ ipc' = "load"
              /\ UNCHANGED <<backup_files, backup_info, iexc>>
         ELSE IF database.kind = "none"
         THEN /\ iexc' = WrapError("Failed to create backup", DatabaseNotFound)
              /\ ipc' = "except"
              /\ UNCHANGED <<backup_files, backup_info>>
         ELSE IF database.kind = "torn"
         THEN /\ backup_files' = PutBackup(id, database)
              /\ iexc' = WrapError("Failed to create backup", JSONDecodeError)
              /\ ipc' = "except"
              /\ UNCHANGED backup_info
         ELSE /\ backup_files' = PutBackup(id, database)
              /\ backup_info' = <<DatabaseBackup(id, database)>>
              /\ ipc' = "load"
              /\ UNCHANGED iexc
    /\ UNCHANGED <<database, now, question_batch, want_backup, current_data,
                   integrated_data, iattempt, ireturn, calls, dbfaults,
                   pre_store, restores>>
    /\ UNCHANGED <<flowvars, bkvars, fnvars>>

\* "Load current database"
ILoad ==
    /\ ipc = "load"
    /\ IF database.kind = "torn"
       THEN /\ iexc' = JSONDecodeError
            /\ ipc' = "except"
            /\ UNCHANGED current_data
       ELSE /\ current_data' = IF database.kind = "ok" THEN database.data
                               ELSE EmptyDatabase
            /\ ipc' = "agent"
            /\ UNCHANGED iexc
    /\ UNCHANGED <<database, backup_files, now, question_batch, want_backup,
                   backup_info, integrated_data, iattempt, ireturn, calls,
                   dbfaults, pre_store, restores>>
    /\ UNCHANGED <<flowvars, bkvars, fnvars>>

\* validation_passed = structure_valid and id_valid
ValidationPassed(data) ==
    /\ validate_json_structure(Json(data)).valid
    /\ validate_id_continuity(data.questions) = << >>

\* self.agent.structured_output returns; _perform_integration and the two
\* validations follow.
IAgentOk ==
    /\ ipc = "agent"
    /\ integrated_data' =
          perform_integration(current_data, question_batch.questions)
    /\ ipc' = IF ValidationPassed(integrated_data') THEN "write" ELSE "rollback"
    /\ UNCHANGED <<database, backup_files, now, question_batch, want_backup,
                   backup_info, current_data, iattempt, iexc, ireturn, calls,
                   dbfaults, pre_store, restores>>
    /\ UNCHANGED <<flowvars, bkvars, fnvars>>

\* self.agent.structured_output raises.
IAgentRaise ==
    /\ ipc = "agent"
    /\ dbfaults < MaxDbFaults
    /\ dbfaults' = dbfaults + 1
    /\ \E e \in SupplierErrors : iexc' = e
    /\ ipc' = "except"
    /\ UNCHANGED <<database, backup_files, now, question_batch, want_backup,
                   backup_info, current_data, integrated_data, iattempt,
                   ireturn, calls, pre_store, restores>>
    /\ UNCHANGED <<flowvars, bkvars, fnvars>>

\* `with open(self.database_path, 'w', ...)`: the store file is truncated.
IWriteOpen ==
    /\ ipc = "write"
    /\ database' = TornStore
    /\ ipc' = "dump"
    /\ UNCHANGED <<backup_files, now, question_batch, want_backup, backup_info,
                   current_data, integrated_data, iattempt, iexc, ireturn,
                   calls, dbfaults, pre_store, restores>>
    /\ UNCHANGED <<flowvars, bkvars, fnvars>>

\* json.dump has written the whole document and the file is closed.
IWriteDone ==
    /\ ipc = "dump"
    /\ database' = StoreOf(integrated_data)
    /\ ipc' = "return"
    /\ UNCHANGED <<backup_files, now, question_batch, want_backup, backup_info,
                   current_data, integrated_data, iattempt, iexc, ireturn,
                   calls, dbfaults, pre_store, restores>>
    /\ UNCHANGED <<flowvars, bkvars, fnvars>>

\* json.dump raises while writing (the device is full).
IWriteFail ==
    /\ ipc = "dump"
    /\ dbfaults < MaxDbFaults
    /\ dbfaults' = dbfaults + 1
    /\ iexc' = OSError
    /\ ipc' = "except"
    /\ UNCHANGED <<database, backup_files, now, question_batch, want_backup,
                   backup_info, current_data, integrated_data, iattempt,
                   ireturn, calls, pre_store, restores>>
    /\ UNCHANGED <<flowvars, bkvars, fnvars>>

\* _restore_from_backup, up to the copy: the backup file exists and its
\* checksum is the recorded one.
RestoreChecks(info) ==
    /\ BackupExists(info.backup_id)
    /\ calculate_checksum(BackupFile(info.backup_id)) = info.checksum

\* Validation failed: "Restore from backup if available".  shutil.copy2
\* opens the store file for writing, then copies.
IRollback ==
    /\ ipc = "rollback"
    /\ IF backup_info = NoBackup
       THEN /\ ipc' = "return"
            /\ UNCHANGED <<database, iexc>>
       ELSE IF RestoreChecks(backup_info[1])
       THEN /\ database' = TornStore
            /\ ipc' = "rollback_copy"
            /\ UNCHANGED iexc
       ELSE /\ iexc' = WrapError("Failed to restore from backup", IntegrityError)
            /\ ipc' = "except"
            /\ UNCHANGED database
    /\ UNCHANGED <<backup_files, now, question_batch, want_backup, backup_info,
                   current_data, integrated_data, iattempt, ireturn, calls,
                   dbfaults, pre_store, restores>>
    /\ UNCHANGED <<flowvars, bkvars, fnvars>>

IRollbackCopy ==
    /\ ipc = "rollback_copy"
    /\ database' = BackupFile(backup_info[1].backup_id)
    /\ restores' = restores + 1
    /\ ipc' = "return"
    /\ UNCHANGED <<backup_files, now, question_batch, want_backup, backup_info,
                   current_data, integrated_data, iattempt, iexc, ireturn,
                   calls, dbfaults, pre_store>>
    /\ UNCHANGED <<flowvars, bkvars, fnvars>>

\* The copy raises.
IRollbackCopyFail ==
    /\ ipc = "rollback_copy"
    /\ dbfaults < MaxDbFaults
    /\ dbfaults' = dbfaults + 1
    /\ iexc' = WrapError("Failed to restore from backup", OSError)
    /\ ipc' = "except"
    /\ UNCHANGED <<database, backup_files, now, question_batch, want_backup,
                   backup_info, current_data, integrated_data, iattempt,
                   ireturn, calls, pre_store, restores>>
    /\ UNCHANGED <<flowvars, bkvars, fnvars>>

\* The handler of integrate: "Restore from backup if available"; a failure
\* of the restore is logged only.
IExcept ==
    /\ ipc = "except"
    /\ IF backup_info # NoBackup /\ RestoreChecks(backup_info[1])
       THEN /\ database' = TornStore
            /\ ipc' = "except_copy"
       ELSE /\ ipc' = "raise"
            /\ UNCHANGED database
    /\ UNCHANGED <<backup_files, now, question_batch, want_backup, backup_info,
                   current_data, integrated_data, iattempt, iexc, ireturn,
                   calls, dbfaults, pre_store, restores>>
    /\ UNCHANGED <<flowvars, bkvars, fnvars>>

IExceptCopy ==
    /\ ipc = "except_copy"
    /\ database' = BackupFile(backup_info[1].backup_id)
    /\ restores' = restores + 1
    /\ ipc' = "raise"
    /\ UNCHANGED <<backup_files, now, question_batch, want_backup, backup_info,
                   current_data, integrated_data, iattempt, iexc, ireturn,
                   calls, dbfaults, pre_store>>
    /\ UNCHANGED <<flowvars, bkvars, fnvars>>

IExceptCopyFail ==
    /\ ipc = "except_copy"
    /\ dbfaults < MaxDbFaults
    /\ dbfaults' = dbfaults + 1
    /\ ipc' = "raise"
    /\ UNCHANGED <<database, backup_files, now, question_batch, want_backup,
                   backup_info, current_data, integrated_data, iattempt, iexc,
                   ireturn, calls, pre_store, restores>>
    /\ UNCHANGED <<flowvars, bkvars, fnvars>>

\* `raise QuestionGenerationError(error_msg) from e` into the decorator:
\* the last attempt or a non-retryable error ends the call, otherwise the
\* function is invoked again after the delay.
IRaise ==
    /\ ipc = "raise"
    /\ LET e == WrapError("Failed to integrate batch", iexc) IN
         IF iattempt = integrate_max_retries \/ ~WrapperRetries(e)
         THEN /\ ireturn' = [kind |-> "raised", value |-> << >>, error |-> e]
              /\ ipc' = "idle"
              /\ UNCHANGED <<iattempt, backup_info, now>>
         ELSE /\ iattempt' = iattempt + 1
              /\ backup_info' = NoBackup
              /\ \E t \in Later : now' = t
              /\ ipc' = "backup"
              /\ UNCHANGED ireturn
    /\ iexc' = NoExc
    /\ UNCHANGED <<database, backup_files, question_batch, want_backup,
                   current_data, integrated_data, calls, dbfaults, pre_store,
                   restores>>
    /\ UNCHANGED <<flowvars, bkvars, fnvars>>

\* `return integration_result`
IReturn ==
    /\ ipc = "return"
    /\ ireturn' =
         [kind |-> "returned",
          value |-> IntegrationResult(
                       ValidationPassed(integrated_data),
                       question_batch,
                       integrated_data,
                       validate_json_structure(Json(integrated_data)).issues,
                       validate_id_continuity(integrated_data.questions),
                       backup_info),
          error |-> NoExc]
    /\ ipc' = "idle"
    /\ UNCHANGED <<database, backup_files, now, question_batch, want_backup,
                   backup_info, current_data, integrated_data, iattempt, iexc,
                   calls, dbfaults, pre_store, restores>>
    /\ UNCHANGED <<flowvars, bkvars, fnvars>>

DbInit == FlowInit /\ StoreInit(InitialStores) /\ BackupInit /\ FnIdle

DbNext ==
    \/ \E questions \in BatchChoices, number \in BatchNumbers,
          flag \in BOOLEAN, t \in Later :
            IntegrateCall(questions, number, flag, t)
    \/ ICreateBackup
    \/ ILoad
    \/ IAgentOk
    \/ IAgentRaise
    \/ IWriteOpen
    \/ IWriteDone
    \/ IWriteFail
    \/ IRollback
    \/ IRollbackCopy
    \/ IRollbackCopyFail
    \/ IExcept
    \/ IExceptCopy
    \/ IExceptCopyFail
    \/ IRaise
    \/ IReturn

DbSpec == DbInit /\ [][DbNext]_vars

\* ========================================================== the backups
\* create_backup, restore_from_backup(backup_id) and _restore_from_backup
\* called one after another by the owner of the agent, with the store
\* changing in between.

\* The variables of a call of integrate
callvars == <<ipc, question_batch, want_backup, backup_info, current_data,
              integrated_data, iattempt, iexc, ireturn, calls, dbfaults,
              pre_store, restores>>

\* batch_number of create_backup: None or a batch number
BackupNumbers == {None, 1}

\* The batch a successful integration adds between two backup operations.
ChangeBatch == [i \in 1..BatchSize |-> Question(1, "monitoring", "easy", "single")]

\* The identifiers a caller can pass to restore_from_backup: those of the
\* files of the backup directory, and one of no file.
KnownIds == {b.backup_id : b \in backup_files} \cup {NoBackupId}

\* create_backup(batch_number) called at second t: raises if the store is
\* missing; otherwise copies the store file to backup_dir/<backup_id>.json,
\* reads the copy (which raises if it is not JSON) and returns the
\* DatabaseBackup.
BkCreate(number, t) ==
    /\ bpc = "idle"
    /\ ops < MaxOps
    /\ ops' = ops + 1
    /\ now' = t
    /\ LET id == BackupId(t, number) IN
         IF database.kind = "none"
         THEN /\ rret' = [op |-> "create_backup", value |-> "raised"]
              /\ UNCHANGED <<backup_files, held>>
         ELSE IF database.kind = "torn"
         THEN /\ backup_files' = PutBackup(id, database)
              /\ rret' = [op |-> "create_backup", value |-> "raised"]
              /\ UNCHANGED held
         ELSE /\ backup_files' = PutBackup(id, database)
              /\ held' = Append(held, DatabaseBackup(id, database))
              /\ rret' = [op |-> "create_backup", value |-> "returned"]
    /\ UNCHANGED <<database, bpc, rarg, bkfaults, rpre, rsrc, rwhy>>
    /\ UNCHANGED <<flowvars, callvars, fnvars>>

\* shutil.copy2 of create_backup raises after it opened the backup file.
BkCreateFail(number, t) ==
    /\ bpc = "idle"
    /\ ops < MaxOps
    /\ bkfaults < MaxBkFaults
    /\ database.kind # "none"
    /\ ops' = ops + 1
    /\ bkfaults' = bkfaults + 1
    /\ now' = t
    /\ backup_files' = PutBackup(BackupId(t, number), TornStore)
    /\ rret' = [op |-> "create_backup", value |-> "raised"]
    /\ UNCHANGED <<database, bpc, held, rarg, rpre, rsrc, rwhy>>
    /\ UNCHANGED <<flowvars, callvars, fnvars>>

\* An integration succeeds between two backup operations: the store file
\* is replaced by the merged store.
BkStoreChange ==
    /\ bpc = "idle"
    /\ ops < MaxOps
    /\ database.kind # "torn"
    /\ LET current == IF database.kind = "ok" THEN database.data ELSE EmptyDatabase
           merged == perform_integration(current, ChangeBatch)
       IN  /\ ValidationPassed(merged)
           /\ database' = StoreOf(merged)
    /\ ops' = ops + 1
    /\ rret' = [op |-> "integrate", value |-> "returned"]
    /\ UNCHANGED <<backup_files, now, bpc, held, rarg, bkfaults, rpre, rsrc, rwhy>>
    /\ UNCHANGED <<flowvars, callvars, fnvars>>

\* restore_from_backup(backup_id) called at second t, up to the test of
\* backup_path.exists(): `return False` if there is no such file.
BkRestoreCall(id, t) ==
    /\ bpc = "idle"
    /\ ops < MaxOps
    /\ ops' = ops + 1
    /\ now' = t
    /\ rarg' = [id |-> id, nheld |-> Len(held)]
    /\ rpre' = database
    /\ rsrc' = NoStore
    /\ IF BackupExists(id)
       THEN /\ bpc' = "rb_safety"
            /\ rret' = [op |-> "restore_from_backup", value |-> "none"]
            /\ rwhy' = "none"
       ELSE /\ bpc' = "idle"
            /\ rret' = [op |-> "restore_from_backup", value |-> "false"]
            /\ rwhy' = "missing"
    /\ UNCHANGED <<database, backup_files, held, bkfaults>>
    /\ UNCHANGED <<flowvars, callvars, fnvars>>

\* Variant: the safety backup is recorded but its file is not written.
BkSafety_NoFile ==
    /\ bpc = "rb_safety"
    /\ LET id == BackupId(now, None) IN
         IF database.kind # "ok"
         THEN /\ bpc' = "idle"
              /\ rret' = [op |-> "restore_from_backup", value |-> "false"]
              /\ rwhy' = "safety"
              /\ UNCHANGED held
         ELSE /\ held' = Append(held, DatabaseBackup(id, database))
              /\ bpc' = "rb_copy"
              /\ UNCHANGED <<rret, rwhy>>
    /\ UNCHANGED <<database, backup_files, now, rarg, ops, bkfaults, rpre, rsrc>>
    /\ UNCHANGED <<flowvars, callvars, fnvars>>

\* `current_backup = self.create_backup()`: the safety backup, named by
\* the second alone; an exception of create_backup ends the call with
\* `return False`.
BkSafety ==
    /\ bpc = "rb_safety"
    /\ LET id == BackupId(now, None) IN
         IF database.kind = "none"
         THEN /\ bpc' = "idle"
              /\ rret' = [op |-> "restore_from_backup", value |-> "false"]
              /\ rwhy' = "safety"
              /\ UNCHANGED <<backup_files, held>>
         ELSE IF database.kind = "torn"
         THEN /\ backup_files' = PutBackup(id, database)
              /\ bpc' = "idle"
              /\ rret' = [op |-> "restore_from_backup", value |-> "false"]
              /\ rwhy' = "safety"
              /\ UNCHANGED held
         ELSE /\ backup_files' = PutBackup(id, database)
              /\ held' = Append(held, DatabaseBackup(id, database))
              /\ bpc' = "rb_copy"
              /\ UNCHANGED <<rret, rwhy>>
    /\ UNCHANGED <<database, now, rarg, ops, bkfaults, rpre, rsrc>>
    /\ UNCHANGED <<flowvars, callvars, fnvars>>

\* The copy of the safety backup raises.
BkSafetyFail ==
    /\ bpc = "rb_safety"
    /\ bkfaults < MaxBkFaults
    /\ database.kind # "none"
    /\ bkfaults' = bkfaults + 1
    /\ backup_files' = PutBackup(BackupId(now, None), TornStore)
    /\ bpc' = "idle"
    /\ rret' = [op |-> "restore_from_backup", value |-> "false"]
    /\ rwhy' = "safety"
    /\ UNCHANGED <<database, now, held, rarg, ops, rpre, rsrc>>
    /\ UNCHANGED <<flowvars, callvars, fnvars>>

\* `shutil.copy2(backup_path, self.database_path)` and `return True`
BkCopy ==
    /\ bpc = "rb_copy"
    /\ database' = BackupFile(rarg.id)
    /\ rsrc' = BackupFile(rarg.id)
    /\ bpc' = "idle"
    /\ rret' = [op |-> "restore_from_backup", value |-> "true"]
    /\ UNCHANGED <<backup_files, now, held, rarg, ops, bkfaults, rpre, rwhy>>
    /\ UNCHANGED <<flowvars, callvars, fnvars>>

\* The copy over the store raises after it opened the store file.
BkCopyFail ==
    /\ bpc = "rb_copy"
    /\ bkfaults < MaxBkFaults
    /\ bkfaults' = bkfaults + 1
    /\ database' = TornStore
    /\ bpc' = "idle"
    /\ rret' = [op |-> "restore_from_backup", value |-> "false"]
    /\ rwhy' = "copy"
    /\ UNCHANGED <<backup_files, now, held, rarg, ops, rpre, rsrc>>
    /\ UNCHANGED <<flowvars, callvars, fnvars>>

\* _restore_from_backup(backup_info) with a DatabaseBackup the caller
\* holds: the file must exist and have the recorded checksum, then it is
\* copied over the store.
BkRestoreInfo(k, t) ==
    /\ bpc = "idle"
    /\ ops < MaxOps
    /\ k \in DOMAIN held
    /\ ops' = ops + 1
    /\ now' = t
    /\ rarg' = [id |-> held[k].backup_id, nheld |-> k]
    /\ rpre' = database
    /\ rwhy' = "none"
    /\ IF RestoreChecks(held[k])
       THEN /\ database' = BackupFile(held[k].backup_id)
            /\ rsrc' = BackupFile(held[k].backup_id)
            /\ rret' = [op |-> "_restore_from_backup", value |-> "returned"]
       ELSE /\ rsrc' = NoStore
            /\ rret' = [op |-> "_restore_from_backup", value |-> "raised"]
            /\ UNCHANGED database
    /\ UNCHANGED <<backup_files, bpc, held, bkfaults>>
    /\ UNCHANGED <<flowvars, callvars, fnvars>>

\* The copy of _restore_from_backup raises after it opened the store file.
BkRestoreInfoFail(k, t) ==
    /\ bpc = "idle"
    /\ ops < MaxOps
    /\ bkfaults < MaxBkFaults
    /\ k \in DOMAIN held
    /\ RestoreChecks(held[k])
    /\ ops' = ops + 1
    /\ bkfaults' = bkfaults + 1
    /\ now' = t
    /\ rarg' = [id |-> held[k].backup_id, nheld |-> k]
    /\ rpre' = database
    /\ rwhy' = "none"
    /\ rsrc' = NoStore
    /\ database' = TornStore
    /\ rret' = [op |-> "_restore_from_backup", value |-> "raised"]
    /\ UNCHANGED <<backup_files, bpc, held>>
    /\ UNCHANGED <<flowvars, callvars, fnvars>>

BackupNext ==
    \/ \E number \in BackupNumbers, t \in Later : BkCreate(number, t)
    \/ \E number \in BackupNumbers, t \in Later : BkCreateFail(number, t)
    \/ BkStoreChange
    \/ \E id \in KnownIds, t \in Later : BkRestoreCall(id, t)
    \/ BkSafety
    \/ BkSafetyFail
    \/ BkCopy
    \/ BkCopyFail
    \/ \E k \in 1..MaxOps, t \in Later : BkRestoreInfo(k, t)
    \/ \E k \in 1..MaxOps, t \in Later : BkRestoreInfoFail(k, t)

BackupSpec == DbInit /\ [][BackupNext]_vars

\* ======================================================= the backoff delay
\* calculate_backoff_delay applied to an attempt and to the next attempt.
DelayApply ==
    /\ d_out = NoDelay
    /\ d_in # NoDelayInput
    /\ d_out' =
         [kind |-> "returned",
          this |-> calculate_backoff_delay(d_in.attempt, d_in.base_delay,
                      d_in.max_delay, exponential_base, d_in.jitter, d_in.u_this),
          next |-> calculate_backoff_delay(d_in.attempt + 1, d_in.base_delay,
                      d_in.max_delay, exponential_base, d_in.jitter, d_in.u_next)]
    /\ UNCHANGED <<d_in, wvars, vvars>>
    /\ UNCHANGED <<flowvars, dbvars, bkvars>>

DelaySpecInit ==
    /\ FlowInit /\ StoreInit({NoStore}) /\ BackupInit
    /\ DelayInit(DelayInputs) /\ WrapperInit /\ ValidateInit({Json(EmptyDatabase)})

DelayNext == DelayApply

DelaySpec == DelaySpecInit /\ [][DelayNext]_vars

\* ======================================================= the retry wrapper
\* The value the wrapped function returns
UnitValue == <<"result">>

\* wrapper(*args, **kwargs) of a function decorated with the arguments cfg
WStart(cfg) ==
    /\ wpc = "idle"
    /\ wpc' = "call"
    /\ w_cfg' = cfg
    /\ w_attempt' = 0
    /\ UNCHANGED <<w_out, w_invocations, w_raised, w_inner, w_slept>>
    /\ UNCHANGED <<dvars, vvars>>
    /\ UNCHANGED <<flowvars, dbvars, bkvars>>

\* return func(*args, **kwargs): the function returns
WInvokeOk ==
    /\ wpc = "call"
    /\ w_invocations' = w_invocations + 1
    /\ w_out' = [kind |-> "returned", value |-> UnitValue, error |-> NoExc]
    /\ wpc' = "done"
    /\ UNCHANGED <<w_cfg, w_attempt, w_raised, w_inner, w_slept>>
    /\ UNCHANGED <<dvars, vvars>>
    /\ UNCHANGED <<flowvars, dbvars, bkvars>>

\* The handler that re-raises whatever the attempt number is
WInvokeRaise_AlwaysRetry(e, u) ==
    /\ wpc = "call"
    /\ w_invocations' = w_invocations + 1
    /\ w_inner' = Append(w_inner, e)
    /\ w_raised' = Append(w_raised, Reraised(w_cfg.handler, e))
    /\ w_slept' = Append(w_slept,
                    calculate_backoff_delay(w_attempt, w_cfg.base_delay,
                        w_cfg.max_delay, exponential_base, w_cfg.jitter, u))
    /\ w_attempt' = w_attempt + 1
    /\ UNCHANGED <<wpc, w_out, w_cfg>>
    /\ UNCHANGED <<dvars, vvars>>
    /\ UNCHANGED <<flowvars, dbvars, bkvars>>

\* e is raised in the body of func(*args, **kwargs) and leaves it as its
\* handler re-raises it: the except block of the loop body, with u the
\* draw of random.uniform in calculate_backoff_delay
WInvokeRaise(e, u) ==
    /\ wpc = "call"
    /\ w_invocations' = w_invocations + 1
    /\ w_inner' = Append(w_inner, e)
    /\ w_raised' = Append(w_raised, Reraised(w_cfg.handler, e))
    /\ IF w_attempt = w_cfg.max_retries
          \/ ~WrapperRetries(Reraised(w_cfg.handler, e))
       THEN \* raise
            /\ w_out' = [kind |-> "raised", value |-> << >>,
                         error |-> Reraised(w_cfg.handler, e)]
            /\ wpc' = "done"
            /\ u = 0
            /\ UNCHANGED <<w_attempt, w_slept>>
       ELSE \* time.sleep(delay), next iteration of the loop
            /\ w_slept' = Append(w_slept,
                    calculate_backoff_delay(w_attempt, w_cfg.base_delay,
                        w_cfg.max_delay, exponential_base, w_cfg.jitter, u))
            /\ (w_cfg.jitter \/ u = 0)
            /\ w_attempt' = w_attempt + 1
            /\ UNCHANGED <<wpc, w_out>>
    /\ UNCHANGED w_cfg
    /\ UNCHANGED <<dvars, vvars>>
    /\ UNCHANGED <<flowvars, dbvars, bkvars>>

RetryNext ==
    \/ \E cfg \in WrapperConfigs : WStart(cfg)
    \/ WInvokeOk
    \/ \E e \in UnitErrors, u \in UniformDraws : WInvokeRaise(e, u)

RetrySpec == Init /\ [][RetryNext]_vars

\* =========================================================== the validator
\* is_valid, issues = validate_json_structure(data)
ValidateApply ==
    /\ v_out = NoVerdict
    /\ LET verdict == validate_json_structure(v_in)
       IN  v_out' = [kind |-> "returned", valid |-> verdict.valid,
                     issues |-> verdict.issues]
    /\ UNCHANGED <<v_in, dvars, wvars>>
    /\ UNCHANGED <<flowvars, dbvars, bkvars>>

ValidateSpecInit ==
    /\ FlowInit /\ StoreInit({NoStore}) /\ BackupInit
    /\ DelayInit({NoDelayInput}) /\ WrapperInit /\ ValidateInit(JsonDocuments)

ValidateNext == ValidateApply

ValidateSpec == ValidateSpecInit /\ [][ValidateNext]_vars


\* ================================================================ claims

SevenStages ==
    <<"analyzing", "planning", "researching", "generating", "validating",
      "optimizing", "integrating">>

\* C1: when an attempt of a batch succeeds, the statuses the batch took
\* during the attempt are Analyzing, Planning, Researching, Generating,
\* Validating, Optimizing, Integrating in that order, then Completed.
C1_SevenStagesInOrder ==
    (pc = "loop_save" /\ cur.status = "completed" /\ trace # << >>)
        => trace = SevenStages \o <<"completed">>

\* C2: a process that finds the state file of a run that had completed a
\* batch but not reached Completed or Failed is in recovery mode once
\* run_complete_flow has loaded the file, and starts no batch whose status in
\* that file is Completed.
C2_RecoveryAfterStop ==
    (/\ start_file.kind = "ok"
     /\ start_file.status \notin {"completed", "failed"}
     /\ start_file.completed # {}
     /\ pc \notin {"rcf_load", "res_load", "res_resume"})
        => /\ progress.recovery_mode
           /\ \A b \in started : b \notin start_file.completed

\* C3: a resume of a paused run to which no new pause is requested does not
\* end paused again: it goes on past the pause point.
C3_ResumeMakesProgress ==
    (/\ cmd = "resume"
     /\ start_file.kind = "ok"
     /\ start_file.status = "paused"
     /\ paused_at = NotPaused
     /\ pc = "done")
        => progress.status # "paused"

\* C4: a pause requested while batch 3 is processed, in a first run whose
\* batches 1 to 3 complete, leaves the flow Paused with completed_batches = 3
\* and current_batch = None, and batch 4 not started.
C4_PausedAfterBatchThree ==
    (/\ pc = "done"
     /\ paused_at = {3}
     /\ start_file.kind = "none"
     /\ \A b \in 1..3 : progress.batch_progress[b].status = "completed")
        => /\ progress.status = "paused"
           /\ progress.completed_batches = 3
           /\ progress.current_batch = None
           /\ 4 \notin started

\* C5: after pause_flow was called with batch k the last batch picked by the
\* loop (k = 0: before the first batch), run_complete_flow starts no batch
\* beyond k and, unless it raises, returns with status Paused.
C5_PauseBetweenBatches ==
    cmd = "run" =>
        \A k \in paused_at :
           /\ \A b \in started : b <= k
           /\ (pc = "done" /\ result # "raised" /\ k < NumBatches)
                 => progress.status = "paused"

\* C6: a failure of process_batch_with_workflow that the retry policy
\* classifies as retryable reaches the loop of run_complete_flow only when
\* the attempts of the policy are used up; before that the batch is invoked
\* again.
C6_RetryableFailureIsRetried ==
    (/\ pc = "loop_except"
     /\ exc.msg[1] = "Failed to process batch"
     /\ WrapperRetries(exc))
        => attempt = wrapper_max_retries

\* C7: the handler of process_batch_with_workflow sets the batch Failed,
\* records the message of the exception, adds one to retry_count and one to
\* failed_batches, touches no other batch, saves the state and raises the
\* wrapped exception to the caller.
C7_FailureRecorded ==
    [][(pc = "pb_except" /\ pc' \notin {"pb_except", "off"}) =>
          /\ progress'.batch_progress[loop_i].status = "failed"
          /\ progress'.batch_progress[loop_i].error_message = exc.msg
          /\ progress'.batch_progress[loop_i].retry_count = cur.retry_count + 1
          /\ progress'.failed_batches = progress.failed_batches + 1
          /\ progress'.completed_batches = progress.completed_batches
          /\ \A b \in Batches \ {loop_i} :
                progress'.batch_progress[b] = progress.batch_progress[b]
          /\ state_file' = save_state(progress')
          /\ pc' = "loop_except"
          /\ exc' = WrapError("Failed to process batch", exc)]_vars

C7_Witness ==
    /\ pc = "loop_except"
    /\ exc.msg[1] = "Failed to process batch"
    /\ cur.status = "failed"
    /\ cur.retry_count = 1
    /\ cur.error_message = <<"timeout">>
    /\ state_file = save_state(progress)

\* C8: when the loop has finished with a batch that failed, failed_batches
\* is one more than when the loop picked the batch.
C8_FailedCountedOnce ==
    (pc = "loop_save" /\ cur.status = "failed")
        => progress.failed_batches = failed_at_pick + 1

\* C9: once initialize_flow has raised inside the batch loop, the flow
\* status is Failed and stays Failed, and no later batch is picked.
C9_FatalAbortsFlow ==
    fatal_in_loop # 0
        => /\ progress.status = "failed"
           /\ progress.current_batch = fatal_in_loop

\* C10 as claimed: a run that finds an unparseable state file processes no
\* batch and ends with status Failed.
C10_CorruptFileIsFatal ==
    (cmd = "run" /\ start_file.kind = "garbled")
        => /\ started = {}
           /\ (pc = "done" => progress.status = "failed")

\* C10 as amended: a run that finds an unparseable state file is not
\* aborted: load_state fails without touching the progress, and
\* run_complete_flow starts a fresh flow through initialize_flow, out of
\* recovery mode; the status is Failed only after an exception was raised.
C10_CorruptFileStartsFresh ==
    (cmd = "run" /\ start_file.kind = "garbled" /\ pc # "rcf_load")
        => /\ ~progress.recovery_mode
           /\ (pc = "init_begin" \/ progress.start_time)
           /\ (pc = "init_begin" /\ loop_i = 0
                 => progress = [NewFlowProgress EXCEPT
                                  !.pause_requested = progress.pause_requested])
           /\ (progress.status = "failed" => faults > 0)

C10_Witness ==
    /\ cmd = "run"
    /\ start_file.kind = "garbled"
    /\ 1 \in started
    /\ progress.status = "initializing"

\* The positions inside process_batch_with_workflow, after its entry.
InBatch == pc \in {"st_begin", "st_call", "pb_complete", "pb_except"}

\* A step that changes the status or the steps_completed of some batch.
BatchAdvances ==
    \E b \in Batches :
       \/ progress'.batch_progress[b].status # progress.batch_progress[b].status
       \/ progress'.batch_progress[b].steps_completed
             # progress.batch_progress[b].steps_completed

\* C11: whenever a step of the running process changes the status or the
\* steps_completed of a batch, the flow status after the step is Running,
\* in memory and in the state file if the step wrote it.
C11_AdvanceOnlyWhenRunning ==
    [][(/\ pc \notin {"off", "done", "rcf_load", "res_load"}
        /\ pc' # "off"
        /\ BatchAdvances)
          => /\ progress'.status = "running"
             /\ (state_file' # state_file
                   => state_file'.data.status = "running")]_vars

\* The moves of the flow status the state machine allows.
AllowedFlowSteps ==
    {<<"not_started", "initializing">>, <<"initializing", "running">>,
     <<"running", "paused">>, <<"paused", "running">>,
     <<"running", "completed">>, <<"running", "failed">>,
     <<"initializing", "failed">>, <<"paused", "failed">>,
     <<"not_started", "failed">>}

\* C12: every change of the flow status made by a step of the running
\* process (other than the load of the state file and the first step of
\* initialize_flow on a fresh start) is a move along
\* NotStarted -> Initializing -> Running <-> Paused -> Completed | Failed;
\* nothing leaves Completed or Failed.
C12_StatusTransitions ==
    [][(/\ pc \notin {"off", "done", "rcf_load", "res_load"}
        /\ ~(pc = "init_begin" /\ loop_i = 0)
        /\ pc' # "off"
        /\ progress'.status # progress.status)
          => <<progress.status, progress'.status>> \in AllowedFlowSteps]_vars

\* C13: while a batch is processed, every batch before it has status
\* Completed or Failed, and no batch after it was started by this process.
C13_StrictlySequential ==
    InBatch =>
        /\ \A k \in 1..(loop_i - 1) :
              progress.batch_progress[k].status \in {"completed", "failed"}
        /\ loop_i \in started
        /\ \A b \in started : b <= loop_i

C13_Witness ==
    /\ pc = "st_call"
    /\ loop_i = 3
    /\ progress.batch_progress[1].status = "completed"
    /\ progress.batch_progress[2].status = "failed"
    /\ started = {1, 2, 3}

\* The final state of a fresh run without pause and failure.
FreshRunDone ==
    /\ pc = "done"
    /\ result = "database"
    /\ progress.status = "completed"
    /\ progress.end_time
    /\ progress.current_batch = None
    /\ progress.completed_batches = NumBatches
    /\ progress.failed_batches = 0
    /\ started = Batches
    /\ \A b \in Batches : progress.batch_progress[b].status = "completed"

\* C14: a run started without a state file, to which no pause is requested
\* and in which nothing fails, terminates, and when it has returned the
\* status is Completed, end_time is set, current_batch is None and every
\* batch was completed once (completed_batches = number of batches).
C14_FreshRunCompletes ==
    /\ []((/\ pc = "done" /\ cmd = "run" /\ start_file.kind = "none"
            /\ faults = 0 /\ pauses = 0) => FreshRunDone)
    /\ ((pc = "rcf_load" /\ cmd = "run" /\ start_file.kind = "none")
          ~> (pc \in {"off", "done"} \/ faults > 0 \/ pauses > 0))

C14_Witness ==
    /\ cmd = "run" /\ start_file.kind = "none"
    /\ faults = 0 /\ pauses = 0
    /\ FreshRunDone

C16_NoHalfWrittenStateFile ==
    state_file.kind \in {"none", "ok"}

\* C17: the progress of a running process, saved and then loaded by a new
\* orchestrator, is equal to it field for field.
C17_RoundTrip ==
    pc \notin {"off", "done"}
        => load_state(NewFlowProgress, save_state(progress)) = progress

\* C18: at every step of a call of integrate the store file is whole: it
\* holds the store as it was when the call was made, or the merged store
\* that passed the validation.
C18_StoreAlwaysWhole ==
    ipc # "idle" =>
        \/ database = pre_store
        \/ /\ ValidationPassed(integrated_data)
           /\ database = StoreOf(integrated_data)

\* Some count map of the merged store does not sum to its total.
SumsMismatch(data) ==
    \/ SumValues(data.domains) # data.total_questions
    \/ SumValues(data.difficulty) # data.total_questions
    \/ SumValues(data.question_types) # data.total_questions

\* A call has returned a result for a merged store whose sums mismatch.
ReturnedAfterMismatch ==
    /\ ipc = "idle"
    /\ ireturn.kind = "returned"
    /\ SumsMismatch(integrated_data)

\* C19 as claimed: a call that returns for a merged store whose count sums
\* mismatch returns a failure with issues, questions_added = 0,
\* rollback_available and a backup reference; the backup was copied back
\* and the store is what it was when the call was made.
C19_FailureRollsBack ==
    ReturnedAfterMismatch =>
        /\ ~ireturn.value.success
        /\ ireturn.value.issues # << >>
        /\ ireturn.value.questions_added = 0
        /\ ireturn.value.rollback_available
        /\ ireturn.value.backup_path # << >>
        /\ restores > 0
        /\ database = pre_store

\* C19 as amended: such a call returns a failure with issues and
\* questions_added = 0 and leaves the store as it was; if it was made with
\* create_backup = true, rollback_available is true, backup_path names a
\* backup that holds the store as it was and that was copied back; if it
\* was made with create_backup = false, rollback_available is false, there
\* is no backup reference and nothing is copied.
C19_FailureRollsBackIfBackedUp ==
    ReturnedAfterMismatch =>
        /\ ~ireturn.value.success
        /\ ireturn.value.issues # << >>
        /\ ireturn.value.questions_added = 0
        /\ database = pre_store
        /\ ireturn.value.rollback_available = want_backup
        /\ ireturn.value.backup_created = want_backup
        /\ want_backup =>
              /\ Len(ireturn.value.backup_path) = 1
              /\ BackupExists(ireturn.value.backup_path[1])
              /\ BackupFile(ireturn.value.backup_path[1]) = pre_store
              /\ restores > 0
        /\ ~want_backup =>
              /\ ireturn.value.backup_path = << >>
              /\ restores = 0

C19_Witness ==
    /\ ReturnedAfterMismatch
    /\ want_backup
    /\ pre_store.kind = "ok"
    /\ database = pre_store
    /\ restores = 1
    /\ ~ireturn.value.success
    /\ ireturn.value.rollback_available

\* The store file is valid: identifiers exactly q001..qN in order, N the
\* declared total and the number of questions, every count map sums to N.
StoreValid(file) ==
    /\ file.kind = "ok"
    /\ Len(file.data.questions) = file.data.total_questions
    /\ \A i \in 1..Len(file.data.questions) : file.data.questions[i].id = i
    /\ ~SumsMismatch(file.data)

\* C20: when a call of integrate has returned or raised, the store file is
\* valid if it was valid when the call was made.
C20_StoreStaysValid ==
    (ipc = "idle" /\ ireturn.kind # "none" /\ StoreValid(pre_store))
        => StoreValid(database)

\* The identifiers 1..n in order (q001..q00n).
FirstIds(n) == [i \in 1..n |-> i]

\* The identifiers of the questions of a store file, in order.
StoredIds(file) == [i \in 1..Len(file.data.questions) |-> file.data.questions[i].id]

\* C21: a call of integrate made when no store file exists, in which
\* neither the agent nor a write fails, returns a success whose
\* new_total_questions is the size of the batch and whose issue list is
\* empty, and the store then holds the batch under q001..q00n in order.
C21_EmptyStoreIntegration ==
    (/\ ipc = "idle" /\ ireturn.kind # "none"
     /\ pre_store = NoStore /\ dbfaults = 0)
        => /\ ireturn.kind = "returned"
           /\ ireturn.value.success
           /\ ireturn.value.new_total_questions = Len(question_batch.questions)
           /\ ireturn.value.issues = << >>
           /\ database.kind = "ok"
           /\ StoredIds(database) = FirstIds(Len(question_batch.questions))
           /\ \A i \in 1..Len(question_batch.questions) :
                 database.data.questions[i] =
                    [question_batch.questions[i] EXCEPT !.id = i]

\* Number of questions of a store file (none if the file is absent).
StoredCount(file) == IF file.kind = "ok" THEN Len(file.data.questions) ELSE 0

\* C22: in a success result, added_question_ids is the list of the
\* identifiers under which the questions of the batch stand in the store
\* after the call, in order.
C22_AddedIdsAreStoredIds ==
    (ipc = "idle" /\ ireturn.kind = "returned" /\ ireturn.value.success)
        => /\ database.kind = "ok"
           /\ ireturn.value.added_question_ids =
                 [i \in 1..Len(question_batch.questions) |->
                     database.data.questions[StoredCount(pre_store) + i].id]

\* Observation: the file content a DatabaseBackup was made of (what its
\* checksum was computed from).
BackedUp(info) == info.checksum[2]

\* The backups create_backup had returned under the identifier of the
\* restore when the restore was called, and the last of them (the one
\* passed, for _restore_from_backup).
HeldBefore == {k \in 1..rarg.nheld : held[k].backup_id = rarg.id}
LastHeld == held[CHOOSE k \in HeldBefore : \A j \in HeldBefore : j <= k]

\* A restore of a backup that create_backup had returned has ended well:
\* restore_from_backup gave True, or _restore_from_backup returned.
RestoreEnded ==
    /\ bpc = "idle"
    /\ \/ rret = [op |-> "restore_from_backup", value |-> "true"]
       \/ rret = [op |-> "_restore_from_backup", value |-> "returned"]
    /\ HeldBefore # {}

\* C23: when a restore of a backup B has ended well and no copy has failed,
\* the store file holds what it held when create_backup made B.
C23_RestoreGivesBackedUpStore ==
    (RestoreEnded /\ bkfaults = 0) => database = BackedUp(LastHeld)

\* C24: the file stored under the identifier of every backup that
\* create_backup returned holds what it held when create_backup returned,
\* and no two returned backups have the same identifier.
C24_BackupsAppendOnly ==
    /\ \A k \in DOMAIN held :
          /\ BackupExists(held[k].backup_id)
          /\ BackupFile(held[k].backup_id) = BackedUp(held[k])
    /\ \A j, k \in DOMAIN held : j # k => held[j].backup_id # held[k].backup_id

\* C25: when a restore of a backup that create_backup had returned has
\* ended, the file it copied over the store, if any, has the checksum
\* recorded for the backup; and _restore_from_backup of a backup whose
\* file has another checksum has raised and left the store as it was.
C25_RestoreVerifiesChecksum ==
    (/\ bpc = "idle"
     /\ rret.op \in {"restore_from_backup", "_restore_from_backup"}
     /\ HeldBefore # {})
        => /\ rsrc # NoStore => calculate_checksum(rsrc) = LastHeld.checksum
           /\ (/\ rret.op = "_restore_from_backup"
               /\ calculate_checksum(BackupFile(rarg.id)) # LastHeld.checksum)
                 => rret.value = "raised" /\ database = rpre

\* C26: when restore_from_backup has returned True, a backup file holds
\* the store as it was when the call was made; while it is about to copy,
\* that backup exists and the store is still as it was; and when the
\* requested backup does not exist or the safety backup could not be
\* made (the store missing or not JSON, or its copy failing), the call has
\* returned False and the store is as it was.
C26_SafetyBackupFirst ==
    /\ (bpc = "idle" /\ rret = [op |-> "restore_from_backup", value |-> "true"])
          => \E b \in backup_files : b.file = rpre
    /\ bpc = "rb_copy"
          => /\ database = rpre
             /\ \E b \in backup_files : b.file = rpre
    /\ (/\ bpc = "idle" /\ rret.op = "restore_from_backup"
        /\ (rpre.kind # "ok" \/ rwhy \in {"missing", "safety"}))
          => rret.value = "false" /\ database = rpre

C26_Witness ==
    /\ bpc = "idle"
    /\ rret = [op |-> "restore_from_backup", value |-> "true"]
    /\ database # rpre
    /\ \E b \in backup_files : b.file = rpre /\ b.backup_id = BackupId(now, None)

\* C27: the delay of an attempt is at most max_delay, and the delay of the
\* next attempt is not below it by more than the two jitter amounts
\* (a tenth of each of the two delays before the jitter, together at
\* most a fifth of max_delay).
C27_DelayMonotoneAndCapped ==
    d_out.kind = "returned"
        => /\ d_out.this <= d_in.max_delay
           /\ d_out.next <= d_in.max_delay
           /\ d_out.next >= d_out.this - (d_in.max_delay \div 5)

\* The unit's failures so far, all but the last
EarlierRaised == SubSeq(w_raised, 1, Len(w_raised) - 1)

WrapperEnded == wpc = "done"

\* C28: the wrapper invokes the unit at most max_retries + 1 times; a
\* success returns at once; a failure is propagated unchanged, a fatal one
\* right after the invocation that raised it (after a single invocation
\* and no delay when it is the first), a retryable one only after
\* max_retries + 1 invocations; there is one positive delay between two
\* consecutive invocations.
C28_RetryBounded ==
    /\ w_invocations <= w_cfg.max_retries + 1
    /\ \A i \in 1..Len(w_slept) : w_slept[i] > 0
    /\ \A i \in 1..Len(EarlierRaised) : WrapperRetries(w_raised[i])
    /\ wpc = "call" => /\ w_invocations = Len(w_raised)
                        /\ Len(w_slept) = w_invocations
                        /\ \A i \in 1..Len(w_raised) : WrapperRetries(w_raised[i])
    /\ (WrapperEnded /\ w_out.kind = "returned")
           => /\ w_invocations = Len(w_raised) + 1
              /\ Len(w_slept) = Len(w_raised)
              /\ w_out.value = UnitValue
    /\ (WrapperEnded /\ w_out.kind = "raised")
           => /\ w_out.error = w_raised[Len(w_raised)]
              /\ w_invocations = Len(w_raised)
              /\ Len(w_slept) = w_invocations - 1
              /\ (~WrapperRetries(w_out.error)
                      \/ w_invocations = w_cfg.max_retries + 1)
              /\ ~WrapperRetries(w_raised[1])
                      => (w_invocations = 1 /\ w_slept = << >>)

\* C28 (witness): with max_retries = 3 the unit has failed with a retryable
\* error on all four attempts and the last failure has been propagated.
C28_Witness ==
    /\ WrapperEnded
    /\ w_cfg.max_retries = wrapper_max_retries
    /\ w_out.kind = "raised"
    /\ WrapperRetries(w_out.error)
    /\ w_invocations = wrapper_max_retries + 1
    /\ Len(w_slept) = wrapper_max_retries

\* C29: a ValidationError raised by the unit is classified as not
\* retryable and is propagated by the wrapper at once: it is the last
\* failure of the call, whatever its message.
C29_ValidationNeverRetried ==
    \A i \in 1..Len(w_raised) :
        w_raised[i].cls = "ValidationError"
            => /\ ~is_retryable_error(w_raised[i])
               /\ i = Len(w_raised)
               /\ WrapperEnded
               /\ w_out = [kind |-> "raised", value |-> << >>,
                           error |-> w_raised[i]]

\* The issues of the returned list, as a set
IssueSet == {v_out.issues[i] : i \in 1..Len(v_out.issues)}

\* What the document declares, a field it lacks read as the validator
\* reads it
DeclaredTotal == JsonGet(v_in, "total_questions", 0)
DeclaredSum(field) == SumValues(JsonGet(v_in, field, EmptyMap))
DocQuestions == JsonGet(v_in, "questions", JsonList(<< >>))

\* C30: the validator returns, and its list holds an issue for every check
\* the document violates: one per missing required field, the count
\* mismatch, the identifier sequence, and each of the three sums; the
\* document is valid only if the list is empty.
C30_IssuesExhaustive ==
    v_out # NoVerdict
        => /\ v_out.kind = "returned"
           /\ v_out.valid <=> v_out.issues = << >>
           /\ \A f \in RequiredFields \ v_in.present : MissingIssue[f] \in IssueSet
           /\ (DocQuestions.type = "list"
                  /\ Len(DocQuestions.items) # DeclaredTotal)
                  => "Question count mismatch" \in IssueSet
           /\ (DocQuestions.type = "list"
                  /\ \E i \in 1..Len(DocQuestions.items) :
                         DocQuestions.items[i].id # i)
                  => "Question ID sequence is not continuous" \in IssueSet
           /\ DocQuestions.type # "list"
                  => "'questions' must be an array" \in IssueSet
           /\ DeclaredSum("domains") # DeclaredTotal
                  => "Domain distribution sum != total questions" \in IssueSet
           /\ DeclaredSum("difficulty") # DeclaredTotal
                  => "Difficulty distribution sum != total questions" \in IssueSet
           /\ DeclaredSum("question_types") # DeclaredTotal
                  => "Question types sum != total questions" \in IssueSet

\* run_full_generation and resume_generation: True only if
\* run_complete_flow returned a database (`if final_database:`); False
\* when it returned None, raised, or load_state failed.
success(r) == r = "database"

\* main(): sys.exit(0 if success else 1)
exit_status(r) == IF success(r) THEN 0 ELSE 1

BatchesWith(p, s) == {b \in Batches : p.batch_progress[b].status = s}

\* C31: when the process has ended, its exit status is non-zero if the run
\* ended in Failed or some batch ended with status Failed, and it is 0
\* only if every batch completed.
C31_ExitStatusReflectsFailure ==
    pc = "done"
        => /\ (progress.status = "failed" \/ BatchesWith(progress, "failed") # {})
                  => exit_status(result) # 0
           /\ exit_status(result) = 0
                  => BatchesWith(progress, "completed") = Batches

\* C32: a call of integrate with create_backup = true (what the
\* integration stage of the orchestrator passes), made when no store file
\* exists and in which neither the agent nor a write fails, returns a
\* success, and the store then is the empty store with zeroed counts
\* merged with the batch.
C32_MissingStoreWithBackup ==
    (/\ ipc = "idle" /\ ireturn.kind # "none"
     /\ want_backup /\ pre_store = NoStore /\ dbfaults = 0)
        => /\ ireturn.kind = "returned"
           /\ ireturn.value.success
           /\ database =
                 StoreOf(perform_integration(EmptyDatabase,
                                             question_batch.questions))

RECURSIVE MaxId(_)
\* The largest identifier number of a list of questions, 0 for none
MaxId(qs) ==
    IF qs = << >> THEN 0
    ELSE LET m == MaxId(Tail(qs)) IN IF Head(qs).id > m THEN Head(qs).id ELSE m

\* _perform_integration has run in the current call
Merged == ipc \in {"write", "rollback"}

\* C33: once the batch is merged, the i-th new item has the identifier
\* M + i, M the largest identifier number of the loaded store, and none of
\* the new identifiers is an identifier of the loaded store.
C33_IdsContinueFromMaximum ==
    Merged =>
        LET old == current_data.questions
            new == integrated_data.questions
        IN  \A i \in 1..Len(question_batch.questions) :
               /\ new[Len(old) + i].id = MaxId(old) + i
               /\ \A k \in 1..Len(old) : old[k].id # new[Len(old) + i].id

\* The positions between the pick of a batch that is processed and the
\* handler of process_batch_with_workflow
Processing ==
    \/ pc \in {"wrapper_call", "pb_start", "st_begin", "st_call", "pb_complete",
               "pb_except"}
    \/ pc \in {"init_begin", "init_body"} /\ loop_i \in Batches

\* C34: over runs and restarts no batch has a retry_count above
\* max_retries, in memory or in the state file; a batch whose retry_count
\* has reached max_retries has the status Failed, and no batch is being
\* processed whose retry_count has reached max_retries.
C34_RetriesBounded ==
    /\ \A b \in Batches :
          /\ progress.batch_progress[b].retry_count <= max_retries
          /\ progress.batch_progress[b].retry_count = max_retries
                => progress.batch_progress[b].status = "failed"
          /\ state_file.kind = "ok"
                => state_file.data.batch_progress[b].retry_count <= max_retries
    /\ Processing => cur.retry_count < max_retries

\* C34 (witness): the loop has met a batch whose three retries were used up
\* by earlier runs and has marked it Failed without starting it.
C34_Witness ==
    /\ pc = "loop_save"
    /\ cur.retry_count = max_retries
    /\ cur.status = "failed"
    /\ loop_i \notin started
    /\ progress.failed_batches = failed_at_pick + 1

\* C35: a step of pause_flow sets pause_requested and changes nothing else
\* of the progress, the state file or the position of the process; a step
\* of resume_flow on the status Paused clears pause_requested and sets the
\* status Running and changes nothing else, and on any other status it
\* leaves the progress unchanged.
C35_PauseResumeFrame ==
    [][/\ pauses' = pauses + 1
           => /\ progress' = [progress EXCEPT !.pause_requested = TRUE]
              /\ UNCHANGED <<pc, state_file, loop_i, stage, attempt, exc, result>>
       /\ (pc = "res_resume" /\ pc' = "rcf_load")
           => /\ progress.status = "paused"
                  => progress' = [progress EXCEPT !.pause_requested = FALSE,
                                                  !.status = "running"]
              /\ progress.status # "paused" => progress' = progress
              /\ UNCHANGED state_file]_vars

\* C35 (witness): resume_flow has acted on a progress loaded with the
\* status Paused, after a pause_flow in an earlier process.
C35_Witness ==
    /\ pc = "rcf_load" /\ cmd = "resume"
    /\ start_file.status = "paused"
    /\ pauses = 1
    /\ progress.status = "running"
    /\ ~progress.pause_requested

\* get_progress_report()['batches_remaining'], total_batches written
\* NumBatches
batches_remaining(p) == NumBatches - p.completed_batches - p.failed_batches

\* C36: in every state failed_batches is the number of batches with the
\* status Failed and completed_batches the number with the status
\* Completed, so that their sum is at most the number of batches and
\* batches_remaining is not negative.
C36_CountersConsistent ==
    /\ progress.failed_batches = Cardinality(BatchesWith(progress, "failed"))
    /\ progress.completed_batches = Cardinality(BatchesWith(progress, "completed"))
    /\ progress.completed_batches + progress.failed_batches <= NumBatches
    /\ batches_remaining(progress) >= 0

\* The process is at the call of integrate for batch b (step 6)
Integrating(b) == pc = "st_call" /\ stage = NumStages /\ loop_i = b

\* C37: a process that found the state file of a finished run (status
\* Completed or Failed) does not call integrate for a batch the file
\* held Completed and does not raise completed_batches above the number
\* of batches.
C37_FinishedRunNotRepeated ==
    (start_file.kind = "ok" /\ start_file.status \in {"completed", "failed"})
        => /\ \A b \in start_file.completed : ~Integrating(b)
           /\ progress.completed_batches <= NumBatches

\* C38: when integrate has returned a result, success or failure, its
\* new_total_questions is the number of questions of the store file.
C38_NewTotalIsStoreSize ==
    (ipc = "idle" /\ ireturn.kind = "returned")
        => ireturn.value.new_total_questions = StoredCount(database)

\* C39: what the wrapper decides for the exception that leaves the
\* decorated function is what is_retryable_error says of the exception
\* raised in its body: retryable stays retryable and fatal stays fatal
\* through the re-raise as QuestionGenerationError.
C39_WrappingKeepsClass ==
    \A i \in 1..Len(w_inner) :
        WrapperRetries(w_raised[i]) <=> is_retryable_error(w_inner[i])

\* load_state has just returned False in this process: resume_generation
\* has returned for that reason, or run_complete_flow goes on to
\* initialize_flow; the state file is still the one load_state read.
LoadFailed ==
    /\ ~load_ok(state_file)
    /\ \/ pc = "done" /\ cmd = "resume" /\ result = "none"
       \/ pc = "init_begin" /\ loop_i = 0

\* C40: when load_state has returned False, the progress in memory is
\* what it was before the call, the progress of a new MainExecutionFlow.
C40_FailedLoadChangesNothing ==
    LoadFailed => progress = NewFlowProgress

====
